---- MODULE Spec2Model ----
(***************************************************************************)
(* Request dispatch, middleware chains and authentication gates of the     *)
(* gin demo programs of this repository:                                   *)
(*   "mw"      src/unnamed/part_000  gin.New(), token gate on GET /getData *)
(*   "mwgroup" src/unnamed/part_000  the route-group variant of its main   *)
(*                                   (lines 31-37 in place of 19-22)       *)
(*   "auth"    src/main.go           gin.Default(), BasicAuth on /admin    *)
(*   "basic"   src/unnamed/part_002  gin.Default(), plain routes           *)
(* One program runs (prog).  Its main builds the router statement by       *)
(* statement (pc, groups, routes, pairs) and then listens; from then on    *)
(* every inbound request is served by its own task, step by step: one      *)
(* action per handler segment of the chain.                                *)
(* A second specification, RouterSpec, drives the router's registration    *)
(* interface with calls drawn from a bounded set, to examine registration  *)
(* and lookup on tables that the demo programs do not build.  A third,     *)
(* PoolSpec, serves the requests of "mw" on contexts that are taken from   *)
(* gin's pool again after a request, as that request left them.            *)
(* Three more specifications run the programs that the documents of the    *)
(* repository give as code: ApiSpec ("me", "scoped": the request-scoped    *)
(* logger and a group behind AuthMiddleware), LogrusSpec ("logrus": the    *)
(* full app with the logger outside Recovery, under weak fairness of the   *)
(* tasks' steps) and JwtSpec ("jwt", "crud": the users API of rest_api.md  *)
(* behind the JWT gate, over the users table db).                          *)
(***************************************************************************)
EXTENDS Integers, Sequences, FiniteSets, TLC

VARIABLES prog, alive, tasks, pc, listening, groups, routes, pairs, db

vars == <<prog, alive, tasks, pc, listening, groups, routes, pairs, db>>

\* The router under construction and, once main listens, in service.
setup == <<pc, listening, groups, routes, pairs>>

\* Number of requests that can be in flight at the same time.
NumTasks == 2

\* Number of registration calls of a driver of RouterSpec.
MaxCalls == 3

Tasks == 1..NumTasks

Programs == {"mw", "mwgroup", "auth", "basic"}

(***************************************************************************)
(* Status codes                                                            *)
(***************************************************************************)
StatusOK == 200

StatusUnauthorized == 401

StatusNotFound == 404

StatusInternalServerError == 500

StatusBadRequest == 400

StatusCreated == 201

StatusNoContent == 204

\* The largest id that the users table hands out.
MaxId == 2

\* Number of requests to the users API that can be in flight at the same
\* time.
MaxInFlight == 1

\* gin's abortIndex: Abort() moves the chain index past every handler.
AbortIndex == 63

(***************************************************************************)
(* Text: header values of the Authorization header are byte sequences, so  *)
(* that the Base64 encoding is computed and not assumed.                   *)
(***************************************************************************)
RECURSIVE Base64Group(_, _)

\* The Base64 alphabet (RFC 4648): index 0..63 -> ASCII code.
B64Char(i) ==
    IF i < 26 THEN 65 + i
    ELSE IF i < 52 THEN 97 + (i - 26)
    ELSE IF i < 62 THEN 48 + (i - 52)
    ELSE IF i = 62 THEN 43 ELSE 47

\* Encodes the bytes of s from position k on, three bytes to four characters,
\* padding the last group with '=' (61).
Base64Group(s, k) ==
    IF k > Len(s) THEN <<>>
    ELSE LET n  == Len(s)
             b1 == s[k]
             b2 == IF k + 1 <= n THEN s[k + 1] ELSE 0
             b3 == IF k + 2 <= n THEN s[k + 2] ELSE 0
             c1 == b1 \div 4
             c2 == (b1 % 4) * 16 + (b2 \div 16)
             c3 == (b2 % 16) * 4 + (b3 \div 64)
             c4 == b3 % 64
         IN  << B64Char(c1), B64Char(c2),
                IF k + 1 <= n THEN B64Char(c3) ELSE 61,
                IF k + 2 <= n THEN B64Char(c4) ELSE 61 >>
             \o Base64Group(s, k + 3)

Base64(s) == Base64Group(s, 1)

\* "Basic "
BasicPrefix == <<66, 97, 115, 105, 99, 32>>

\* user, user1, user2, admin
UserBytes == <<117, 115, 101, 114>>

User1Bytes == <<117, 115, 101, 114, 49>>

User2Bytes == <<117, 115, 101, 114, 50>>

\* passw, passw1, passw2
PasswBytes == <<112, 97, 115, 115, 119>>

Passw1Bytes == <<112, 97, 115, 115, 119, 49>>

Passw2Bytes == <<112, 97, 115, 115, 119, 50>>

\* gin.Accounts of the basic-auth program.
Accounts ==
    { [user |-> "user",  ubytes |-> UserBytes,  password |-> PasswBytes],
      [user |-> "user1", ubytes |-> User1Bytes, password |-> Passw1Bytes],
      [user |-> "user2", ubytes |-> User2Bytes, password |-> Passw2Bytes] }

\* gin's authorizationHeader(user, password): "Basic " + base64(user:password)
AuthorizationHeader(u, p) == BasicPrefix \o Base64(u \o <<58>> \o p)

\* Pairs that join every configured user with every configured password.
ProcessAccountsCrossed(accounts) ==
    { [value |-> AuthorizationHeader(a.ubytes, b.password), user |-> a.user] :
        a \in accounts, b \in accounts }

\* gin's processAccounts: the header value of every account, computed once
\* when gin.BasicAuth builds the handler.
ProcessAccounts(accounts) ==
    { [value |-> AuthorizationHeader(a.ubytes, a.password), user |-> a.user] :
        a \in accounts }

\* searchCredential comparing the values without their last three bytes.
SearchCredentialPrefix(authValue) ==
    IF authValue = <<>> THEN {}
    ELSE { a \in pairs :
             LET h == a.value
                 n == IF Len(h) < Len(authValue) THEN Len(h) ELSE Len(authValue)
             IN  SubSeq(h, 1, n - 3) = SubSeq(authValue, 1, n - 3) }

\* gin's searchCredential: the pairs whose precomputed header value equals
\* the request's Authorization header, byte for byte; none for an empty header.
SearchCredential(authValue) ==
    IF authValue = <<>> THEN {}
    ELSE { a \in pairs : a.value = authValue }

(***************************************************************************)
(* Route table: groups, registration and lookup                            *)
(***************************************************************************)
Lit(s) == <<"lit", s>>

Par(s) == <<"param", s>>

\* gin.New(): the root group, without handlers.
New == [prefix |-> <<>>, handlers |-> <<>>]

\* RouterGroup.Use: the handlers are appended to the group's.
Use(g, hs) == [g EXCEPT !.handlers = @ \o hs]

\* gin.Default(): New() and Use(Logger(), Recovery()).
Default == Use(New, <<"Logger", "Recovery">>)

\* Every router built as by gin.New().
EngineBare(p) == New

\* The router of program p: part_000 and the mains of the documents call
\* gin.New(), the others gin.Default().
Engine(p) ==
    IF p \in {"mw", "mwgroup", "scoped", "logrus", "api", "jwt", "crud"} THEN New ELSE Default

\* A group whose own handlers come before its parent's.
GroupInnerFirst(parent, prefix, hs) ==
    [prefix |-> parent.prefix \o prefix, handlers |-> hs \o parent.handlers]

\* RouterGroup.Group: the prefix is appended to the parent's, the group's
\* handlers follow the parent's.
Group(parent, prefix, hs) ==
    [prefix |-> parent.prefix \o prefix, handlers |-> parent.handlers \o hs]

\* RouterGroup.GET/POST: absolute pattern, and the group's chain followed by
\* the handlers given at registration.
Handle(g, method, rel, hs) ==
    [method |-> method, pattern |-> g.prefix \o rel, handlers |-> g.handlers \o hs]

UrlParams == <<Lit("get-UrlParams"), Par("name"), Par("age")>>

\* The route tables that the mains build, read off their registration calls.
MwRoutes ==
    LET router == Engine("mw")
    IN  { Handle(router, "GET", <<Lit("getData")>>,
                 <<"Authenticate", "AddHeader", "GetDatahandler">>),
          Handle(router, "GET", <<Lit("getData1")>>, <<"GetData1handler">>),
          Handle(router, "GET", <<Lit("getData2")>>, <<"GetData2handler">>) }

MwGroupRoutes ==
    LET router      == Engine("mwgroup")
        adminRoutes == Group(router, <<Lit("admin")>>, <<"Authenticate">>)
    IN  { Handle(adminRoutes, "GET", <<Lit("getData")>>,
                 <<"Authenticate", "GetDatahandler">>),
          Handle(adminRoutes, "GET", <<Lit("getData1")>>, <<"GetData1handler">>),
          Handle(adminRoutes, "GET", <<Lit("getData2")>>, <<"GetData2handler">>) }

AuthRoutes ==
    LET router       == Engine("auth")
        adminRoutes  == Group(router, <<Lit("admin")>>, <<"BasicAuth">>)
        clientRoutes == Group(router, <<Lit("client")>>, <<>>)
    IN  { Handle(router, "GET", <<>>, <<"RootHandler">>),
          Handle(adminRoutes, "GET", <<Lit("get-body-data")>>, <<"GetBodyDataHandler">>),
          Handle(adminRoutes, "GET", <<Lit("get-QryStr")>>, <<"GetQryDataHandler">>),
          Handle(adminRoutes, "GET", UrlParams, <<"GetUrlDataHandler">>),
          Handle(clientRoutes, "GET", UrlParams, <<"GetUrlDataHandler">>) }

BasicRoutes ==
    LET router == Engine("basic")
    IN  { Handle(router, "GET", <<>>, <<"RootHandler">>),
          Handle(router, "POST", <<>>, <<"PostHandler">>),
          Handle(router, "GET", <<Lit("get-body-data")>>, <<"GetBodyDataHandler">>),
          Handle(router, "GET", <<Lit("get-QryStr")>>, <<"GetQryDataHandler">>),
          Handle(router, "GET", UrlParams, <<"GetUrlDataHandler">>) }

Routes(p) ==
    CASE p = "mw"      -> MwRoutes
      [] p = "mwgroup" -> MwGroupRoutes
      [] p = "auth"    -> AuthRoutes
      [] OTHER         -> BasicRoutes

\* The handlers that end a chain: everything else is a middleware.
TerminalHandlers ==
    {"GetDatahandler", "GetData1handler", "GetData2handler", "RootHandler",
     "PostHandler", "GetBodyDataHandler", "GetQryDataHandler", "GetUrlDataHandler",
     "PostMeHandler", "PingHandler", "PingHandlerFull",
     "get", "update", "delete", "register", "login"}

(***************************************************************************)
(* The statements of main that build the router, in source order.  A call  *)
(* names the variable it assigns (var), the group variable it is made on   *)
(* (on), and its arguments.                                                *)
(***************************************************************************)
Call(op, var, on, method, rel, hs) ==
    [op |-> op, var |-> var, on |-> on, method |-> method, rel |-> rel, hs |-> hs]

\* router := gin.New() or gin.Default()
EngineCall == Call("Engine", "router", "", "", <<>>, <<>>)

\* auth := gin.BasicAuth(gin.Accounts{...})
BasicAuthCall == Call("BasicAuth", "auth", "", "", <<>>, <<>>)

\* var := on.Group(prefix, hs...)
GroupCall(var, on, prefix, hs) == Call("Group", var, on, "", prefix, hs)

\* on.GET(rel, hs...), on.POST(rel, hs...)
HandleCall(on, method, rel, hs) == Call("Handle", "", on, method, rel, hs)

\* server.ListenAndServe(), router.Run()
ListenCall == Call("Listen", "", "", "", <<>>, <<>>)

\* A main that gives AddHeader to the route before Authenticate.
MwMainHeaderFirst ==
    << EngineCall,
       HandleCall("router", "GET", <<Lit("getData")>>,
                  <<"AddHeader", "Authenticate", "GetDatahandler">>),
       HandleCall("router", "GET", <<Lit("getData1")>>, <<"GetData1handler">>),
       HandleCall("router", "GET", <<Lit("getData2")>>, <<"GetData2handler">>),
       ListenCall >>

\* main of part_000
MwMain ==
    << EngineCall,
       HandleCall("router", "GET", <<Lit("getData")>>,
                  <<"Authenticate", "AddHeader", "GetDatahandler">>),
       HandleCall("router", "GET", <<Lit("getData1")>>, <<"GetData1handler">>),
       HandleCall("router", "GET", <<Lit("getData2")>>, <<"GetData2handler">>),
       ListenCall >>

MwGroupMain ==
    << EngineCall,
       GroupCall("adminRoutes", "router", <<Lit("admin")>>, <<"Authenticate">>),
       HandleCall("adminRoutes", "GET", <<Lit("getData")>>,
                  <<"Authenticate", "GetDatahandler">>),
       HandleCall("adminRoutes", "GET", <<Lit("getData1")>>, <<"GetData1handler">>),
       HandleCall("adminRoutes", "GET", <<Lit("getData2")>>, <<"GetData2handler">>),
       ListenCall >>

\* A main that starts the server before it registers the /client group.
AuthMainListensEarly ==
    << EngineCall,
       HandleCall("router", "GET", <<>>, <<"RootHandler">>),
       BasicAuthCall,
       GroupCall("adminRoutes", "router", <<Lit("admin")>>, <<"BasicAuth">>),
       HandleCall("adminRoutes", "GET", <<Lit("get-body-data")>>, <<"GetBodyDataHandler">>),
       HandleCall("adminRoutes", "GET", <<Lit("get-QryStr")>>, <<"GetQryDataHandler">>),
       HandleCall("adminRoutes", "GET", UrlParams, <<"GetUrlDataHandler">>),
       ListenCall,
       GroupCall("clientRoutes", "router", <<Lit("client")>>, <<>>),
       HandleCall("clientRoutes", "GET", UrlParams, <<"GetUrlDataHandler">> ) >>

\* A main that makes the /client group with the basic-auth gate as well.
AuthMainClientGated ==
    << EngineCall,
       HandleCall("router", "GET", <<>>, <<"RootHandler">>),
       BasicAuthCall,
       GroupCall("adminRoutes", "router", <<Lit("admin")>>, <<"BasicAuth">>),
       HandleCall("adminRoutes", "GET", <<Lit("get-body-data")>>, <<"GetBodyDataHandler">>),
       HandleCall("adminRoutes", "GET", <<Lit("get-QryStr")>>, <<"GetQryDataHandler">>),
       HandleCall("adminRoutes", "GET", UrlParams, <<"GetUrlDataHandler">>),
       GroupCall("clientRoutes", "router", <<Lit("client")>>, <<"BasicAuth">>),
       HandleCall("clientRoutes", "GET", UrlParams, <<"GetUrlDataHandler">>),
       ListenCall >>

\* main of main.go
AuthMain ==
    << EngineCall,
       HandleCall("router", "GET", <<>>, <<"RootHandler">>),
       BasicAuthCall,
       GroupCall("adminRoutes", "router", <<Lit("admin")>>, <<"BasicAuth">>),
       HandleCall("adminRoutes", "GET", <<Lit("get-body-data")>>, <<"GetBodyDataHandler">>),
       HandleCall("adminRoutes", "GET", <<Lit("get-QryStr")>>, <<"GetQryDataHandler">>),
       HandleCall("adminRoutes", "GET", UrlParams, <<"GetUrlDataHandler">>),
       GroupCall("clientRoutes", "router", <<Lit("client")>>, <<>>),
       HandleCall("clientRoutes", "GET", UrlParams, <<"GetUrlDataHandler">>),
       ListenCall >>

BasicMain ==
    << EngineCall,
       HandleCall("router", "GET", <<>>, <<"RootHandler">>),
       HandleCall("router", "POST", <<>>, <<"PostHandler">>),
       HandleCall("router", "GET", <<Lit("get-body-data")>>, <<"GetBodyDataHandler">>),
       HandleCall("router", "GET", <<Lit("get-QryStr")>>, <<"GetQryDataHandler">>),
       HandleCall("router", "GET", UrlParams, <<"GetUrlDataHandler">>),
       ListenCall >>

\* on.Use(hs...)
UseCall(on, hs) == Call("Use", "", on, "", <<>>, hs)

\* The main that serves /me: POST, PUT and PATCH with one handler.
MeMain ==
    << EngineCall,
       HandleCall("router", "POST", <<Lit("me")>>, <<"PostMeHandler">>),
       HandleCall("router", "PUT", <<Lit("me")>>, <<"PostMeHandler">>),
       HandleCall("router", "PATCH", <<Lit("me")>>, <<"PostMeHandler">>),
       ListenCall >>

\* main of readme.md, section 5, with the group of its section on
\* middleware (api := r.Group("/admin", AuthMiddleware)) and a route on it.
ScopedMain ==
    << EngineCall,
       UseCall("router", <<"LoggerMiddleware">>),
       HandleCall("router", "GET", <<Lit("ping")>>, <<"PingHandler">>),
       GroupCall("api", "router", <<Lit("admin")>>, <<"AuthMiddleware">>),
       HandleCall("api", "GET", <<Lit("ping")>>, <<"PingHandler">>),
       ListenCall >>

\* A main that registers the recovery before the logger.
LogrusMainRecoveryFirst ==
    << EngineCall,
       UseCall("router", <<"Recovery">>),
       UseCall("router", <<"LoggerMiddlewareFull">>),
       HandleCall("router", "GET", <<Lit("ping")>>, <<"PingHandlerFull">>),
       ListenCall >>

\* main of readme.md, section 15 (the full app)
LogrusMain ==
    << EngineCall,
       UseCall("router", <<"LoggerMiddlewareFull">>),
       UseCall("router", <<"Recovery">>),
       HandleCall("router", "GET", <<Lit("ping")>>, <<"PingHandlerFull">>),
       ListenCall >>

\* SetupRouter of rest_api.md, with the wiring of its section on JWT: the
\* auth routes are public, the users routes are behind AuthMiddleware.
JwtMain ==
    << EngineCall,
       UseCall("router", <<"Recovery">>),
       UseCall("router", <<"LoggerMiddlewareEntry">>),
       UseCall("router", <<"CORSMiddleware">>),
       HandleCall("router", "GET", <<Lit("health")>>, <<"health">>),
       GroupCall("api", "router", <<Lit("api")>>, <<>>),
       GroupCall("v1", "api", <<Lit("v1")>>, <<>>),
       GroupCall("authGroup", "v1", <<Lit("auth")>>, <<>>),
       HandleCall("authGroup", "POST", <<Lit("register")>>, <<"register">>),
       HandleCall("authGroup", "POST", <<Lit("login")>>, <<"login">>),
       GroupCall("users", "v1", <<Lit("users")>>, <<>>),
       UseCall("users", <<"AuthMiddlewareFunc">>),
       HandleCall("users", "POST", <<Lit("")>>, <<"create">>),
       HandleCall("users", "GET", <<Lit("")>>, <<"list">>),
       HandleCall("users", "GET", <<Par("id")>>, <<"get">>),
       HandleCall("users", "PUT", <<Par("id")>>, <<"update">>),
       HandleCall("users", "DELETE", <<Par("id")>>, <<"delete">>),
       ListenCall >>

Main(p) ==
    CASE p = "mw"      -> MwMain
      [] p \in {"jwt", "crud"} -> JwtMain
      [] p = "logrus"  -> LogrusMain
      [] p = "me"      -> MeMain
      [] p = "scoped"  -> ScopedMain
      [] p = "mwgroup" -> MwGroupMain
      [] p = "auth"    -> AuthMain
      [] OTHER         -> BasicMain

(***************************************************************************)
(* The engine's trees: registration and lookup.  table is the sequence of  *)
(* the routes in the order of their registration.                          *)
(***************************************************************************)
\* The two patterns run together up to a segment where both have a
\* parameter, under different names.
WildcardConflict(p1, p2) ==
    \E i \in 1..Len(p1) :
        /\ i <= Len(p2)
        /\ \A j \in 1..(i - 1) : p1[j] = p2[j]
        /\ p1[i][1] = "param" /\ p2[i][1] = "param" /\ p1[i][2] # p2[i][2]

\* A registration that rejects nothing.
ConflictsNever(table, r) == FALSE

\* node.addRoute panics when the method's tree already has handlers for the
\* pattern, or a parameter of another name at the place of one of its own.
Conflicts(table, r) ==
    \E i \in 1..Len(table) :
        /\ table[i].method = r.method
        /\ \/ table[i].pattern = r.pattern
           \/ WildcardConflict(table[i].pattern, r.pattern)

\* A registration that forgets the routes registered before.
AddRouteAlone(table, r) == <<r>>

\* Engine.addRoute, when it does not panic.
AddRoute(table, r) == Append(table, r)

\* A path is the sequence of its segments; "/" is <<>> and a trailing slash
\* is a last, empty segment.  A literal segment matches itself, a named
\* parameter any non-empty segment.
Match(pattern, path) ==
    /\ Len(pattern) = Len(path)
    /\ \A i \in 1..Len(pattern) :
          IF pattern[i][1] = "lit" THEN path[i] = pattern[i][2] ELSE path[i] # ""

\* A lookup that ignores the request's method.
MatchingAnyMethod(table, method, path) ==
    { r \in { table[i] : i \in 1..Len(table) } : Match(r.pattern, path) }

\* The routes of the method's tree whose pattern the path matches.
Matching(table, method, path) ==
    { r \in { table[i] : i \in 1..Len(table) } :
        r.method = method /\ Match(r.pattern, path) }

\* A walk that finds the route registered first.
FoundFirst(table, m) ==
    LET k == CHOOSE i \in 1..Len(table) :
                 table[i] \in m /\ \A j \in 1..(i - 1) : table[j] \notin m
    IN  table[k]

RECURSIVE Walk(_, _)

\* node.getValue from segment i on, over the routes m that match the path:
\* at every node the walk tries the literal child before the parameter
\* child, and takes the parameter child when there is no literal one (m
\* holds only routes that match, so a branch taken here does not fail).
Walk(m, i) ==
    IF \A r \in m : i > Len(r.pattern) THEN m
    ELSE LET lit == { r \in m : r.pattern[i][1] = "lit" }
         IN  IF lit # {} THEN Walk(lit, i + 1) ELSE Walk(m, i + 1)

\* The route the walk ends at.
Found(table, m) == CHOOSE r \in Walk(m, 1) : TRUE

\* The other spelling of the path: with the trailing slash removed or added.
ToggleSlash(path) ==
    IF path # <<>> /\ path[Len(path)] = ""
    THEN SubSeq(path, 1, Len(path) - 1)
    ELSE Append(path, "")

\* A binding that gives every parameter the last segment of the path.
BindLast(pattern, path) ==
    [ n \in { pattern[i][2] : i \in { j \in 1..Len(pattern) : pattern[j][1] = "param" } } |->
        path[Len(path)] ]

\* The path parameters bound by a pattern: each name gets the segment of the
\* path at the place of its parameter.
Bind(pattern, path) ==
    LET idx == { i \in 1..Len(pattern) : pattern[i][1] = "param" }
    IN  [ n \in { pattern[i][2] : i \in idx } |->
            path[CHOOSE i \in idx : pattern[i][2] = n] ]

\* Engine.handleHTTPRequest's lookup in the table, for a router whose root
\* group is root.  The method's tree is searched; without a route, a path
\* other than "/" whose other spelling has one is redirected
\* (RedirectTrailingSlash is on by default); everything else, a path
\* registered under another method included (HandleMethodNotAllowed is off by
\* default), is served by the no-route chain: the root group's handlers.
Resolve(table, root, method, path) ==
    LET m == Matching(table, method, path)
    IN  IF m # {}
        THEN LET r == Found(table, m)
             IN  [kind |-> "route", handlers |-> r.handlers,
                  params |-> Bind(r.pattern, path), fullPath |-> r.pattern]
        ELSE IF path # <<>> /\ Matching(table, method, ToggleSlash(path)) # {}
        THEN [kind |-> "redirect", handlers |-> <<>>, params |-> <<>>,
              fullPath |-> <<>>]
        ELSE [kind |-> "noroute", handlers |-> root.handlers, params |-> <<>>,
              fullPath |-> <<>>]

(***************************************************************************)
(* gin.Context: response writer and flow control.  c is a task's record.   *)
(***************************************************************************)
\* responseWriter.reset: status 200 pending, nothing written.
NewResponse == [status |-> StatusOK, written |-> FALSE, hdr |-> {}, body |-> <<>>]

\* responseWriter.WriteHeader: records the status unless the header is
\* already on the wire.
Status(c, code) ==
    IF c.resp.written \/ c.resp.status = code THEN c
    ELSE [c EXCEPT !.resp.status = code]

\* responseWriter.WriteHeaderNow: commits status and headers.
WriteHeaderNow(c) == [c EXCEPT !.resp.written = TRUE]

\* Header().Set: replaces the value of the key; without effect on the
\* response once the header is on the wire.
Header(c, k, v) ==
    IF c.resp.written THEN c
    ELSE [c EXCEPT !.resp.hdr = { kv \in @ : kv[1] # k } \cup {<<k, v>>}]

\* writeContentType: sets Content-Type unless one is set.
WriteContentType(c, v) ==
    IF \E kv \in c.resp.hdr : kv[1] = "Content-Type" THEN c
    ELSE Header(c, "Content-Type", v)

\* responseWriter.Write: commits the header, then appends to the body.
Write(c, data) ==
    [WriteHeaderNow(c) EXCEPT !.resp.body = Append(@, data)]

\* The lower-case letter of an upper-case one, every other byte itself.
Lower(x) == IF x \in 65..90 THEN x + 32 ELSE x

RECURSIVE LessFold(_, _)

\* An order that compares letters without regard to case.
LessFold(a, b) ==
    IF a = <<>> THEN b # <<>>
    ELSE IF b = <<>> THEN FALSE
    ELSE IF Lower(a[1]) # Lower(b[1]) THEN Lower(a[1]) < Lower(b[1])
    ELSE LessFold(Tail(a), Tail(b))

RECURSIVE Less(_, _)

\* Go's string order: a < b when a is a proper prefix of b or has the smaller
\* byte at the first place where they differ.
Less(a, b) ==
    IF a = <<>> THEN b # <<>>
    ELSE IF b = <<>> THEN FALSE
    ELSE IF a[1] # b[1] THEN a[1] < b[1]
    ELSE Less(Tail(a), Tail(b))

\* The UTF-8 bytes of the keys of the gin.H maps of the handlers, and of the
\* path segments that a handler parses as an id.
KeyBytes(k) ==
    CASE k = "Message"             -> <<77, 101, 115, 115, 97, 103, 101>>
      [] k = "data"                -> <<100, 97, 116, 97>>
      [] k = "status_code"         -> <<115, 116, 97, 116, 117, 115, 95, 99, 111, 100, 101>>
      [] k = "status"              -> <<115, 116, 97, 116, 117, 115>>
      [] k = "Thought U+1F4AD"     -> <<84, 104, 111, 117, 103, 104, 116, 240, 159, 146, 173>>
      [] k = "bodyData"            -> <<98, 111, 100, 121, 68, 97, 116, 97>>
      [] k = "ERROR U+26A0 U+FE0F" -> <<69, 82, 82, 79, 82, 32, 226, 154, 160, 239, 184, 143>>
      [] k = "name"                -> <<110, 97, 109, 101>>
      [] k = "age"                 -> <<97, 103, 101>>
      [] k = "email"               -> <<101, 109, 97, 105, 108>>
      [] k = "password"            -> <<112, 97, 115, 115, 119, 111, 114, 100>>
      [] k = "error"               -> <<101, 114, 114, 111, 114>>
      [] k = "message"             -> <<109, 101, 115, 115, 97, 103, 101>>
      [] k = "id"                  -> <<105, 100>>
      [] k = "token"               -> <<116, 111, 107, 101, 110>>
      [] k = "1"                   -> <<49>>
      [] k = "2"                   -> <<50>>
      [] k = "3"                   -> <<51>>
      [] k = "x1"                  -> <<120, 49>>


RECURSIVE SortedKeys(_)

\* The keys in ascending order.
SortedKeys(ks) ==
    IF ks = {} THEN <<>>
    ELSE LET k == CHOOSE x \in ks :
                      \A y \in ks \ {x} : Less(KeyBytes(x), KeyBytes(y))
         IN  <<k>> \o SortedKeys(ks \ {k})

\* json.Marshal of a gin.H (a Go map): the members of the object, as pairs
\* of key and value, sorted by key.
Marshal(obj) ==
    LET ks == SortedKeys(DOMAIN obj)
    IN  [i \in 1..Len(ks) |-> <<ks[i], obj[ks[i]]>>]

\* Context.JSON(code, obj)
JSON(c, code, obj) ==
    Write(WriteContentType(Status(c, code), "application/json; charset=utf-8"),
          [kind |-> "json", obj |-> Marshal(obj)])

\* Abort that leaves the chain index alone.
AbortSkipped(c) == c

\* Context.Abort: no handler after the current one is run by Next.
Abort(c) == [c EXCEPT !.index = AbortIndex]

\* AbortWithStatus that writes the status and does not abort.
AbortWithStatusOnly(c, code) == WriteHeaderNow(Status(c, code))

\* Context.AbortWithStatus(code)
AbortWithStatus(c, code) == Abort(WriteHeaderNow(Status(c, code)))

\* Context.AbortWithStatusJSON(code, obj)
AbortWithStatusJSON(c, code, obj) == JSON(Abort(c), code, obj)

\* Context.Next, called by handler h: c.index++ and the rest of the chain
\* runs while h waits in the call.
CallNext(c, h) == [c EXCEPT !.index = @ + 1, !.stack = Append(@, h)]

\* A handler returns to the loop of Next that called it: c.index++.
ReturnFrom(c) == [c EXCEPT !.index = @ + 1]

\* Marks that the running handler, at position k of the chain, cut the chain
\* short, with the response as it left it (history, for the properties).
Cut(c, k) == [c EXCEPT !.cut = k, !.cutResp = c.resp]

\* The position of Recovery among the handlers waiting in Next, 0 if none.
RecoveryFrame(c) ==
    IF \E i \in 1..Len(c.stack) : c.stack[i] = "Recovery"
    THEN CHOOSE i \in 1..Len(c.stack) : c.stack[i] = "Recovery"
    ELSE 0

\* A panic unwinds the handlers waiting in Next.  Recovery's deferred
\* function answers 500 and Recovery returns; without it the panic reaches
\* net/http's connection goroutine, which recovers it and closes the
\* connection without a response.
Unwound(c) ==
    LET k == RecoveryFrame(c)
        d == [c EXCEPT !.panicked = TRUE]
    IN  IF k > 0
        THEN ReturnFrom([AbortWithStatus(d, StatusInternalServerError)
                           EXCEPT !.stack = SubSeq(c.stack, 1, k - 1)])
        ELSE [d EXCEPT !.st = "dropped", !.stack = <<>>]

(***************************************************************************)
(* Middlewares and handlers                                                *)
(***************************************************************************)
TokenMessage == [Message |-> "Token Not Present! U+1F534"]

\* Authenticate answering 401 instead of 500.
AuthenticateUnauthorized(c) ==
    IF ~(c.req.token = "auth")
    THEN ReturnFrom(Cut(AbortWithStatusJSON(c, StatusUnauthorized, TokenMessage),
                        Len(c.ran)))
    ELSE CallNext(c, "Authenticate")

\* Authenticate comparing the token without regard to case.
AuthenticateAnyCase(c) ==
    IF ~(c.req.token \in {"auth", "Auth", "AUTH"})
    THEN ReturnFrom(Cut(AbortWithStatusJSON(c, StatusInternalServerError, TokenMessage),
                        Len(c.ran)))
    ELSE CallNext(c, "Authenticate")

\* middlewares.Authenticate
Authenticate(c) ==
    IF ~(c.req.token = "auth")
    THEN ReturnFrom(Cut(AbortWithStatusJSON(c, StatusInternalServerError, TokenMessage),
                        Len(c.ran)))
    ELSE CallNext(c, "Authenticate")

\* A closure that aborts only when the request has no Token header.
AuthenticateFuncPresent(c) ==
    IF c.req.token = ""
    THEN ReturnFrom(Cut(AbortWithStatusJSON(c, StatusInternalServerError, TokenMessage),
                        Len(c.ran)))
    ELSE CallNext(c, "Authenticate")

\* The alternate way to write the middleware: Authenticate() returns this
\* closure, which takes the place of the bare function in the chain.
AuthenticateFunc(c) ==
    IF c.req.token # "auth"
    THEN ReturnFrom(Cut(AbortWithStatusJSON(c, StatusInternalServerError, TokenMessage),
                        Len(c.ran)))
    ELSE CallNext(c, "Authenticate")

\* AddHeader that continues without setting the header.
AddHeaderUnset(c) == CallNext(c, "AddHeader")

\* middlewares.AddHeader
AddHeader(c) == CallNext(Header(c, "Key", "Val"), "AddHeader")

\* gin.BasicAuth(accounts): the handler it returns.
\* A gate that lets the request continue without recording the user.
BasicAuthUnrecorded(c) ==
    IF SearchCredential(c.req.authz) = {}
    THEN ReturnFrom(Cut(AbortWithStatus(
                            Header(c, "WWW-Authenticate", "Basic realm=Authorization Required"),
                            StatusUnauthorized),
                        Len(c.ran)))
    ELSE ReturnFrom(c)

\* gin.BasicAuth's handler: without a pair for the Authorization header it
\* sets WWW-Authenticate and aborts with 401; with one it records the pair's
\* user under gin.AuthUserKey ("user") and returns.
BasicAuth(c) ==
    LET found == SearchCredential(c.req.authz)
    IN  IF found = {}
        THEN ReturnFrom(Cut(AbortWithStatus(
                                Header(c, "WWW-Authenticate", "Basic realm=Authorization Required"),
                                StatusUnauthorized),
                            Len(c.ran)))
        ELSE ReturnFrom([c EXCEPT !.keys.user = (CHOOSE a \in found : TRUE).user])

\* gin.Logger(): measures around Next; the record is written afterwards.
Logger(c) == CallNext(c, "Logger")

\* gin.Recovery(): defers the recover and calls Next.
Recovery(c) == CallNext(c, "Recovery")

GetDatahandler(c) ==
    ReturnFrom(JSON(c, StatusOK,
        [data |-> "Hi! I am GetDataHandler method() U+1F7E2", status_code |-> StatusOK]))

GetData1handler(c) ==
    ReturnFrom(JSON(c, StatusOK,
        [data |-> "Hi! I am GetData1Handler method() U+1F535", status_code |-> StatusOK]))

GetData2handler(c) ==
    ReturnFrom(JSON(c, StatusOK,
        [data |-> "Hi! I am GetData2Handler method() U+1F7E1", status_code |-> StatusOK]))

RootHandler(c) ==
    ReturnFrom(JSON(c, StatusOK,
        ("Thought U+1F4AD" :>
            "Don't take life too seriously, you ain't getting out alive anyways")
        @@ [data |-> "U+1F378 Welcome to GET root / home router Skyy (PORT: 8080 by default)!",
            status |-> StatusOK]))

PostHandler(c) ==
    ReturnFrom(JSON(c, StatusOK,
        [data |-> "Hi I'm a POST request U+1F7E2", status |-> StatusOK]))

\* ctx.Query(key): the value of the key, "" when absent.
Query(c, key) == IF key \in DOMAIN c.req.query THEN c.req.query[key] ELSE ""

\* ctx.Param(key): the value bound to the name, "" when absent.
Param(c, key) == IF key \in DOMAIN c.params THEN c.params[key] ELSE ""

GetQryDataHandler(c) ==
    ReturnFrom(JSON(c, StatusOK,
        [data |-> "Getting data from Query-Params U+1F7E2",
         name |-> Query(c, "name"), age |-> Query(c, "age"), status |-> StatusOK]))

GetUrlDataHandler(c) ==
    ReturnFrom(JSON(c, StatusOK,
        [data |-> "Getting data from URL params U+1F535",
         name |-> Param(c, "name"), age |-> Param(c, "age"), status |-> StatusOK]))

\* A read that leaves the body in place.
ReadAllKept(c) == [val |-> c.unread, c |-> c]

\* io.ReadAll(ctx.Request.Body): everything not read so far, and the body is
\* at its end afterwards.
ReadAll(c) == [val |-> c.unread, c |-> [c EXCEPT !.unread = ""]]

\* GetBodyDataHandler when io.ReadAll returns val without error.
GetBodyDataHandler(c, val) ==
    ReturnFrom(JSON(c, StatusOK, [bodyData |-> val, status |-> StatusOK]))

\* An error branch without its return: the success body follows the error.
GetBodyDataBoth(c) ==
    [JSON(JSON(c, StatusInternalServerError,
               ("ERROR U+26A0 U+FE0F" :> "read error")
               @@ [status |-> StatusInternalServerError]),
          StatusOK, [bodyData |-> "", status |-> StatusOK])
       EXCEPT !.bodyErr = TRUE]

\* GetBodyDataHandler when io.ReadAll fails: the error response is written
\* to the context, then log.Fatal ends the process.
GetBodyDataFailure(c) ==
    [JSON(c, StatusInternalServerError,
          ("ERROR U+26A0 U+FE0F" :> "read error")
          @@ [status |-> StatusInternalServerError])
       EXCEPT !.bodyErr = TRUE]

(***************************************************************************)
(* The request-scoped logger of readme.md                                  *)
(***************************************************************************)
\* A logger that attaches the entry and logs nothing before Next.
LoggerMiddlewareLate(c, h, started) ==
    CallNext([c EXCEPT !.keys.logger = TRUE], h)

\* LoggerMiddleware(logger), registered as h: the entry is attached to the
\* context under "logger", the start record (message started) is logged, and
\* Next is called.  The record after Next is AfterNext's.
LoggerMiddleware(c, h, started) ==
    CallNext([c EXCEPT !.keys.logger = TRUE,
                       !.logs = Append(@, [msg |-> started, method |-> c.req.method,
                                           path |-> c.req.path])],
             h)

\* AuthMiddleware of readme.md: the Authorization header must be "secret".
AuthMiddleware(c) ==
    IF c.req.authz # <<115, 101, 99, 114, 101, 116>>
    THEN ReturnFrom(Cut(Abort(JSON(c, StatusUnauthorized, [error |-> "unauthorized"])),
                        Len(c.ran)))
    ELSE CallNext(c, "AuthMiddleware")

\* The handler of GET /ping: c.MustGet("logger") panics without the key;
\* the entry logs the message and the handler answers pong.
PingHandler(c, message) ==
    IF ~c.keys.logger THEN Unwound(c)
    ELSE ReturnFrom(JSON([c EXCEPT !.logs = Append(@, [msg |-> message])],
                         StatusOK, [message |-> "pong"]))

(***************************************************************************)
(* Binding of a JSON body                                                  *)
(***************************************************************************)
\* encoding/json's decoding of the bodies the clients send: the members of
\* the object, and ok FALSE for a text that is no JSON object.
Decode(text) ==
    CASE text = "{\"password\":\"x\"}" ->
            [ok |-> TRUE, obj |-> [password |-> "x"]]
      [] text = "{\"email\":\"a@b.com\",\"password\":\"x\"}" ->
            [ok |-> TRUE, obj |-> [email |-> "a@b.com", password |-> "x"]]
      [] text = "{\"email\":\"a@b.com\"}" ->
            [ok |-> TRUE, obj |-> [email |-> "a@b.com"]]
      [] text = "{\"email\":\"\",\"password\":\"x\"}" ->
            [ok |-> TRUE, obj |-> [email |-> "", password |-> "x"]]
      [] text = "{\"name\":\"Ann\",\"email\":\"a@b.com\"}" ->
            [ok |-> TRUE, obj |-> [name |-> "Ann", email |-> "a@b.com"]]
      [] text = "{\"name\":\"Bob\",\"email\":\"b@b.com\"}" ->
            [ok |-> TRUE, obj |-> [name |-> "Bob", email |-> "b@b.com"]]
      [] text = "{\"name\":\"Ann\"}" ->
            [ok |-> TRUE, obj |-> [name |-> "Ann"]]
      [] text = "{\"name\":\"Ann\",\"email\":\"a@b.com\",\"password\":\"secret1\"}" ->
            [ok |-> TRUE,
             obj |-> [name |-> "Ann", email |-> "a@b.com", password |-> "secret1"]]
      [] text = "{\"email\":\"a@b.com\",\"password\":\"secret1\"}" ->
            [ok |-> TRUE, obj |-> [email |-> "a@b.com", password |-> "secret1"]]
      [] text = "{\"email\":\"a@b.com\",\"password\":\"secret2\"}" ->
            [ok |-> TRUE, obj |-> [email |-> "a@b.com", password |-> "secret2"]]
      [] OTHER -> [ok |-> FALSE, obj |-> [k \in {} |-> ""]]

\* The struct as the decoder leaves it: a field has the value of the member
\* of its name, or its zero value.
Fill(obj, fields) == [f \in fields |-> IF f \in DOMAIN obj THEN obj[f] ELSE ""]

\* A binding that validates nothing.
ShouldBindJSONLax(text, fields, required) ==
    LET d == Decode(text)
    IN  [err |-> IF d.ok THEN "" ELSE "invalid request", obj |-> Fill(d.obj, fields)]

\* Context.ShouldBindJSON(&req): the body is decoded into the struct, then
\* the fields tagged binding:"required" must differ from the zero value.
\* err is the error's text, "" for nil.
ShouldBindJSON(text, fields, required) ==
    LET d   == Decode(text)
        obj == Fill(d.obj, fields)
    IN  IF ~d.ok THEN [err |-> "invalid request", obj |-> obj]
        ELSE IF \E f \in required : obj[f] = ""
        THEN [err |-> "Field validation failed on the 'required' tag", obj |-> obj]
        ELSE [err |-> "", obj |-> obj]

\* The handler of POST, PUT and PATCH /me: the body is bound to a struct
\* whose email is required; the fields are echoed, or the binding's error
\* is reported with 400.
PostMeHandler(c) ==
    LET rd == ReadAll(c)
        b  == ShouldBindJSON(rd.val, {"email", "password"}, {"email"})
    IN  ReturnFrom(IF b.err # ""
                   THEN JSON(rd.c, StatusBadRequest,
                             [error |-> b.err, status_code |-> StatusBadRequest])
                   ELSE JSON(rd.c, StatusOK,
                             [email |-> b.obj.email, password |-> b.obj.password]))

(***************************************************************************)
(* The users API of rest_api.md: repository, service, handlers, and the    *)
(* JWT gate.  A user is [id, name, email, hash]: hash stands for the       *)
(* password it was made from (bcrypt), and the timestamps are left out.    *)
(***************************************************************************)
\* strconv.ParseUint(s, 10, 32): digits only, at least one, and a value of
\* at most 4294967295; ok is FALSE for everything else.
ParseUint(b) ==
    LET RECURSIVE TrimZeros(_), Decimal(_)
        TrimZeros(x) == IF Len(x) > 1 /\ x[1] = 48 THEN TrimZeros(Tail(x)) ELSE x
        Decimal(x) ==
            IF x = <<>> THEN 0
            ELSE 10 * Decimal(SubSeq(x, 1, Len(x) - 1)) + (x[Len(x)] - 48)
        d   == TrimZeros(b)
        max == <<52, 50, 57, 52, 57, 54, 55, 50, 57, 53>>
    IN  IF b = <<>> \/ \E i \in DOMAIN b : b[i] \notin 48..57
        THEN [ok |-> FALSE, val |-> 0]
        ELSE IF Len(d) > Len(max) \/ (Len(d) = Len(max) /\ Less(max, d))
        THEN [ok |-> FALSE, val |-> 0]
        ELSE [ok |-> TRUE, val |-> Decimal(d)]

RECURSIVE FormatUint(_)

\* fmt.Sprint(user.ID): the decimal digits of the id.
FormatUint(n) ==
    IF n < 10 THEN <<48 + n>> ELSE FormatUint(n \div 10) \o <<48 + (n % 10)>>

\* authService.GenerateToken(user): a token signed with the server's secret
\* whose subject is the user's id.  A token is the byte t, its subject, and
\* a mark: .k when it is signed with the secret and not expired.
GenerateToken(u) == <<116>> \o FormatUint(u.id) \o <<46, 107>>

\* authService.ParseToken(tokenStr): the claims of a token that is signed
\* with the secret and valid; every other text is an error.
ParseToken(tok) ==
    LET n == Len(tok)
    IN  IF n >= 3 /\ tok[1] = 116 /\ tok[n - 1] = 46 /\ tok[n] = 107
        THEN [ok |-> TRUE, subject |-> SubSeq(tok, 2, n - 2)]
        ELSE [ok |-> FALSE, subject |-> <<>>]

\* A gate that takes the subject of any valid token for a user id.
AuthMiddlewareFuncAnySubject(c) ==
    LET auth   == c.req.authz
        sp     == { i \in DOMAIN auth : auth[i] = 32 }
        k      == IF sp = {} THEN 0 ELSE CHOOSE i \in sp : \A j \in sp : i <= j
        claims == ParseToken(SubSeq(auth, k + 1, Len(auth)))
    IN  IF k = 0 \/ ~claims.ok
        THEN ReturnFrom(Cut(AbortWithStatusJSON(c, StatusUnauthorized,
                                                [error |-> "invalid token"]),
                            Len(c.ran)))
        ELSE CallNext([c EXCEPT !.keys.userID = 0], "AuthMiddlewareFunc")

\* middleware.AuthMiddleware(authSvc, log): the closure it returns.
AuthMiddlewareFunc(c) ==
    LET auth   == c.req.authz
        sp     == { i \in DOMAIN auth : auth[i] = 32 }
        \* strings.SplitN(auth, " ", 2): at the first space, if any
        k      == IF sp = {} THEN 0 ELSE CHOOSE i \in sp : \A j \in sp : i <= j
        scheme == SubSeq(auth, 1, k - 1)
        claims == ParseToken(SubSeq(auth, k + 1, Len(auth)))
        uid    == ParseUint(claims.subject)
        deny(d, message) ==
            ReturnFrom(Cut(AbortWithStatusJSON(d, StatusUnauthorized,
                                               [error |-> message]),
                           Len(c.ran)))
    IN  IF auth = <<>> THEN deny(c, "missing authorization header")
        ELSE IF k = 0 \/ [i \in DOMAIN scheme |-> Lower(scheme[i])]
                           # <<98, 101, 97, 114, 101, 114>>
        THEN deny(c, "invalid authorization header")
        ELSE IF ~claims.ok
        THEN deny([c EXCEPT !.logs = Append(@, [msg |-> "token parse failed"])],
                  "invalid token")
        ELSE IF claims.subject = <<>> THEN deny(c, "invalid token claims")
        ELSE IF ~uid.ok THEN deny(c, "invalid subject in token")
        ELSE CallNext([c EXCEPT !.keys.userID = uid.val], "AuthMiddlewareFunc")

\* CORSMiddleware(): lets every request of the clients modelled here pass.
CORSMiddleware(c) == CallNext(c, "CORSMiddleware")

\* The JSON of a struct: its members in the order of its fields.
WriteJSON(c, code, members) ==
    Write(WriteContentType(Status(c, code), "application/json; charset=utf-8"),
          [kind |-> "json", obj |-> members])

\* userRepo.GetByID / GetByEmail: the rows with the id (the email); none is
\* (nil, nil).
GetBy(store, field, value) ==
    { store.rows[i] : i \in { j \in DOMAIN store.rows : store.rows[j][field] = value } }

\* userRepo.Create: the insert takes the next id of the sequence, also when
\* the unique index on email rejects it.
Create(store, u) ==
    IF GetBy(store, "email", u.email) # {}
    THEN [err |-> "duplicate key", u |-> u, store |-> [store EXCEPT !.next = @ + 1]]
    ELSE LET v == [u EXCEPT !.id = store.next]
         IN  [err |-> "", u |-> v,
              store |-> [next |-> store.next + 1, rows |-> (store.next :> v) @@ store.rows]]

\* userRepo.Update: db.Save writes every field of the row with the id, and
\* inserts the row when there is none.
Update(store, u) ==
    IF \E v \in GetBy(store, "email", u.email) : v.id # u.id
    THEN [err |-> "duplicate key", store |-> store]
    ELSE [err |-> "", store |-> [store EXCEPT !.rows = (u.id :> u) @@ @]]

\* An update that saves without looking the user up.
UpdateUserUnchecked(store, u) == Update(store, u)

\* userService.UpdateUser
UpdateUser(store, u) ==
    IF GetBy(store, "id", u.id) = {}
    THEN [err |-> "ErrUserNotFound", store |-> store]
    ELSE Update(store, u)

\* The members of a user in a response.
UserJSON(u) == << <<"id", u.id>>, <<"name", u.name>>, <<"email", u.email>> >>

\* The handlers below return the context and the users table as they leave
\* them.  fail: the database fails the handler's first statement.
\* UserHandler.get, with userService.GetUser
get(c, store, fail) ==
    LET id    == ParseUint(KeyBytes(Param(c, "id")))
        found == GetBy(store, "id", id.val)
    IN  [db |-> store,
         c  |-> ReturnFrom(
                  IF ~id.ok THEN JSON(c, StatusBadRequest, [error |-> "invalid id"])
                  ELSE IF fail
                  THEN JSON([c EXCEPT !.repoErr = TRUE, 
                                      !.logs = Append(@, [msg |-> "get failed"])],
                            StatusInternalServerError, [error |-> "get failed"])
                  ELSE IF found = {}
                  THEN JSON(c, StatusNotFound, [error |-> "not found"])
                  ELSE WriteJSON(c, StatusOK, UserJSON(CHOOSE u \in found : TRUE)))]

\* UserHandler.update
update(c, store, fail) ==
    LET id  == ParseUint(KeyBytes(Param(c, "id")))
        rd  == ReadAll(c)
        b   == ShouldBindJSON(rd.val, {"name", "email"}, {"name", "email"})
        u   == [id |-> id.val, name |-> b.obj.name, email |-> b.obj.email, hash |-> ""]
        out == IF fail THEN [err |-> "connection lost", store |-> store]
               ELSE UpdateUser(store, u)
    IN  IF ~id.ok
        THEN [db |-> store,
              c  |-> ReturnFrom(JSON(c, StatusBadRequest, [error |-> "invalid id"]))]
        ELSE IF b.err # ""
        THEN [db |-> store,
              c  |-> ReturnFrom(JSON(rd.c, StatusBadRequest, [error |-> b.err]))]
        ELSE [db |-> out.store,
              c  |-> ReturnFrom(
                       IF out.err = "ErrUserNotFound"
                       THEN JSON(rd.c, StatusNotFound, [error |-> "not found"])
                       ELSE IF out.err # ""
                       THEN JSON([rd.c EXCEPT !.repoErr = TRUE,
                                             !.logs = Append(@, [msg |-> "update failed"])],
                                 StatusInternalServerError, [error |-> "update failed"])
                       ELSE WriteJSON(rd.c, StatusOK, UserJSON(u)))]

\* UserHandler.delete, with userService.DeleteUser and userRepo.Delete
delete(c, store, fail) ==
    LET id == ParseUint(KeyBytes(Param(c, "id")))
    IN  IF ~id.ok
        THEN [db |-> store,
              c  |-> ReturnFrom(JSON(c, StatusBadRequest, [error |-> "invalid id"]))]
        ELSE IF fail
        THEN [db |-> store,
              c  |-> ReturnFrom(JSON([c EXCEPT !.repoErr = TRUE,
                                               !.logs = Append(@, [msg |-> "delete failed"])],
                                     StatusInternalServerError,
                                     [error |-> "delete failed"]))]
        ELSE [db |-> [store EXCEPT !.rows = [i \in DOMAIN @ \ {id.val} |-> @[i]]],
              c  |-> ReturnFrom(Status(c, StatusNoContent))]

\* AuthHandler.register, with userService.CreateUser(u, rawPassword)
register(c, store, fail) ==
    LET rd  == ReadAll(c)
        b   == ShouldBindJSON(rd.val, {"name", "email", "password"},
                              {"name", "email", "password"})
        out == Create(store, [id |-> 0, name |-> b.obj.name, email |-> b.obj.email,
                              hash |-> b.obj.password])
    IN  IF b.err # ""
        THEN [db |-> store,
              c  |-> ReturnFrom(JSON(rd.c, StatusBadRequest, [error |-> b.err]))]
        ELSE IF Len(b.obj.password) < 6
        THEN [db |-> store,
              c  |-> ReturnFrom(JSON(rd.c, StatusBadRequest,
                                     [error |-> "password too short"]))]
        ELSE IF fail
        THEN [db |-> store,
              c  |-> ReturnFrom(JSON([rd.c EXCEPT !.repoErr = TRUE],
                                     StatusBadRequest, [error |-> "connection lost"]))]
        ELSE [db |-> out.store,
              c  |-> ReturnFrom(
                       IF out.err # ""
                       THEN JSON(rd.c, StatusBadRequest, [error |-> out.err])
                       ELSE JSON(rd.c, StatusCreated,
                                 [id |-> out.u.id, email |-> out.u.email,
                                  name |-> out.u.name]))]

\* AuthHandler.login, with authService.Authenticate
login(c, store, fail) ==
    LET rd    == ReadAll(c)
        b     == ShouldBindJSON(rd.val, {"email", "password"}, {"email", "password"})
        found == GetBy(store, "email", b.obj.email)
    IN  [db |-> store,
         c  |-> ReturnFrom(
                  IF b.err # "" THEN JSON(rd.c, StatusBadRequest, [error |-> b.err])
                  ELSE IF fail \/ found = {}
                          \/ \E u \in found : u.hash # b.obj.password
                  THEN JSON([rd.c EXCEPT !.repoErr = fail], StatusUnauthorized,
                            [error |-> "invalid credentials"])
                  ELSE JSON(rd.c, StatusOK,
                            [token |-> GenerateToken(CHOOSE u \in found : TRUE)]))]

\* The handler's code from its entry to its call of Next or its return.
Run(h, c) ==
    CASE h = "Authenticate"      -> Authenticate(c)
      [] h = "AddHeader"         -> AddHeader(c)
      [] h = "BasicAuth"         -> BasicAuth(c)
      [] h = "Logger"            -> Logger(c)
      [] h = "Recovery"          -> Recovery(c)
      [] h = "GetDatahandler"    -> GetDatahandler(c)
      [] h = "GetData1handler"   -> GetData1handler(c)
      [] h = "GetData2handler"   -> GetData2handler(c)
      [] h = "RootHandler"       -> RootHandler(c)
      [] h = "PostHandler"       -> PostHandler(c)
      [] h = "GetQryDataHandler" -> GetQryDataHandler(c)
      [] h = "GetUrlDataHandler" -> GetUrlDataHandler(c)
      [] h = "PostMeHandler"     -> PostMeHandler(c)
      [] h = "LoggerMiddleware"  -> LoggerMiddleware(c, h, "request_started")
      [] h = "AuthMiddleware"    -> AuthMiddleware(c)
      [] h = "PingHandler"       -> PingHandler(c, "pong handler")
      [] h = "LoggerMiddlewareFull" -> LoggerMiddleware(c, h, "request_start")
      [] h = "PingHandlerFull"   -> PingHandler(c, "ping_handler")
      [] h = "LoggerMiddlewareEntry" -> CallNext(c, h)
      [] h = "CORSMiddleware"    -> CORSMiddleware(c)
      [] h = "AuthMiddlewareFunc" -> AuthMiddlewareFunc(c)


\* The handler's code after its call of Next has returned.
AfterNext(h, c) ==
    LET record(message) ==
            [msg |-> message, method |-> c.req.method, path |-> c.req.path,
             status |-> c.resp.status]
    IN  CASE h = "Logger"           -> [c EXCEPT !.logs = Append(@, c.resp.status)]
          [] h = "LoggerMiddleware" ->
                [c EXCEPT !.logs = Append(@, record("request_completed"))]
          [] h = "LoggerMiddlewareFull" ->
                [c EXCEPT !.logs = Append(@, record("request_end"))]
          [] h = "LoggerMiddlewareEntry" ->
                [c EXCEPT !.logs = Append(@, record("request completed"))]
          [] OTHER                  -> c

(***************************************************************************)
(* Requests                                                                *)
(***************************************************************************)
\* Values of the Token header ("" when the header is absent).
Tokens == {"", "auth", "Auth", "wrong"}

NoAuthz == <<>>

\* The credential user:passw, encoded.
UserPassw == AuthorizationHeader(UserBytes, PasswBytes)

NoQuery == [k \in {} |-> ""]

\* Request bodies.
Bodies == {"", "hello"}

Req(method, path, token, authz, query) ==
    [method |-> method, path |-> path, token |-> token, authz |-> authz,
     query |-> query, body |-> ""]

\* The request sent with a body.
WithBody(req, body) == [req EXCEPT !.body = body]

\* Requests to the middleware program: the guarded route with every token,
\* the unguarded routes, and requests that match no route.
MwRequests ==
    { Req("GET", <<"getData">>, tk, NoAuthz, NoQuery) : tk \in Tokens }
    \cup { Req("GET", <<"getData1">>, "", NoAuthz, NoQuery),
           Req("GET", <<"getData2">>, "", NoAuthz, NoQuery),
           Req("POST", <<"getData">>, "auth", NoAuthz, NoQuery),
           Req("GET", <<"getData", "">>, "auth", NoAuthz, NoQuery),
           Req("GET", <<"nope">>, "", NoAuthz, NoQuery) }

\* Requests to its route-group variant.
MwGroupRequests ==
    { Req("GET", <<"admin", "getData">>, tk, NoAuthz, NoQuery) : tk \in {"", "auth"} }
    \cup { Req("GET", <<"admin", "getData1">>, tk, NoAuthz, NoQuery) : tk \in {"wrong", "auth"} }
    \cup { Req("GET", <<"admin", "getData2">>, "auth", NoAuthz, NoQuery),
           Req("GET", <<"getData">>, "auth", NoAuthz, NoQuery) }

\* Requests to the basic-auth program: the /admin routes with the three
\* accounts, with credentials that are not configured and without any, the
\* other routes, and requests that match no route.
AuthRequests ==
    { Req("GET", <<"admin", "get-UrlParams", "Skyy", "30">>, "", az, NoQuery) :
        az \in { UserPassw, AuthorizationHeader(UserBytes, Passw1Bytes),
                 AuthorizationHeader(UserBytes \o <<51>>, PasswBytes),
                 BasicPrefix \o UserBytes \o <<58>> \o PasswBytes } }
    \cup { WithBody(Req("GET", <<"admin", "get-body-data">>, "",
                        AuthorizationHeader(User2Bytes, Passw2Bytes), NoQuery), "hello"),
           Req("GET", <<"admin", "get-body-data">>, "", NoAuthz, NoQuery),
           Req("GET", <<"admin", "get-QryStr">>, "",
               AuthorizationHeader(User1Bytes, Passw1Bytes), [name |-> "Mark", age |-> "30"]),
           Req("GET", <<>>, "", NoAuthz, NoQuery),
           Req("GET", <<"client", "get-UrlParams", "J. D'Arc & co", ":age">>, "", NoAuthz, NoQuery),
           Req("POST", <<"admin", "get-UrlParams", "Skyy", "30">>, "", UserPassw, NoQuery),
           Req("GET", <<"admin", "get-QryStr", "">>, "", NoAuthz, NoQuery) }

\* Requests to the program of plain routes.
BasicRequests ==
    { WithBody(Req("GET", <<"get-body-data">>, "", NoAuthz, NoQuery), b) : b \in Bodies }
    \cup { Req("GET", <<>>, "", NoAuthz, NoQuery),
           Req("POST", <<>>, "", NoAuthz, NoQuery),
           Req("GET", <<"get-QryStr">>, "", NoAuthz, [name |-> "Mark", age |-> "30"]),
           Req("GET", <<"get-UrlParams", "Mark", "30">>, "", NoAuthz, NoQuery),
           Req("GET", <<"get-UrlParams", "Mark">>, "", NoAuthz, NoQuery),
           Req("POST", <<"get-QryStr", "">>, "", NoAuthz, NoQuery),
           Req("GET", <<"get-QryStr", "">>, "", NoAuthz, NoQuery) }

\* Requests to /me: bodies without email, with email and password, with
\* email alone, with an empty email, and no body at all.
MeRequests ==
    { WithBody(Req("POST", <<"me">>, "", NoAuthz, NoQuery), b) :
        b \in { "{\"password\":\"x\"}", "{\"email\":\"a@b.com\",\"password\":\"x\"}",
                "{\"email\":\"a@b.com\"}", "{\"email\":\"\",\"password\":\"x\"}", "" } }
    \cup { WithBody(Req("PUT", <<"me">>, "", NoAuthz, NoQuery), "{\"password\":\"x\"}") }

\* Requests to /ping and /admin/ping: without Authorization, with "secret"
\* and with "Secret"; and a request that matches no route.
PingRequests ==
    { Req("GET", <<"ping">>, "", NoAuthz, NoQuery),
      Req("GET", <<"nope">>, "", NoAuthz, NoQuery) }
    \cup { Req("GET", <<"admin", "ping">>, "", a, NoQuery) :
             a \in { NoAuthz, <<115, 101, 99, 114, 101, 116>>,
                     <<83, 101, 99, 114, 101, 116>> } }

\* The Authorization header Bearer <token>.
Bearer(tok) == <<66, 101, 97, 114, 101, 114, 32>> \o tok

\* Requests to the users API that show the gate: GET /api/v1/users/1 without
\* the header, with the token of user 1 (under Bearer and bearer), with a
\* header that has no space, with Basic, with a token of another signature,
\* and with valid tokens whose subjects are empty, x1, 007 and 4294967296;
\* and the public routes.
JwtRequests ==
    { Req("GET", <<"api", "v1", "users", "1">>, "", a, NoQuery) :
        a \in { NoAuthz,
                Bearer(<<116, 49, 46, 107>>),
                <<98, 101, 97, 114, 101, 114, 32, 116, 49, 46, 107>>,
                <<66, 101, 97, 114, 101, 114>>,
                <<66, 97, 115, 105, 99, 32, 116, 49, 46, 107>>,
                Bearer(<<116, 49, 46, 120>>),
                Bearer(<<116, 46, 107>>),
                Bearer(<<116, 120, 49, 46, 107>>),
                Bearer(<<116, 48, 48, 55, 46, 107>>),
                Bearer(<<116, 52, 50, 57, 52, 57, 54, 55, 50, 57, 54, 46, 107>>) } }
    \cup { WithBody(Req("POST", <<"api", "v1", "auth", "register">>, "", NoAuthz, NoQuery),
                    "{\"name\":\"Ann\",\"email\":\"a@b.com\",\"password\":\"secret1\"}"),
           WithBody(Req("POST", <<"api", "v1", "auth", "login">>, "", NoAuthz, NoQuery),
                    "{\"email\":\"a@b.com\",\"password\":\"secret1\"}") }

\* Requests to the users API with the token of user 1 that read, change and
\* delete users 1 and 2, and the registration.
CrudRequests ==
    LET users(method, id, body) ==
            WithBody(Req(method, <<"api", "v1", "users", id>>, "",
                         Bearer(<<116, 49, 46, 107>>), NoQuery), body)
    IN  { users("GET", "1", ""), users("GET", "x1", ""),
          users("PUT", "1", "{\"name\":\"Bob\",\"email\":\"b@b.com\"}"),
          users("PUT", "2", "{\"name\":\"Bob\",\"email\":\"b@b.com\"}"),
          users("PUT", "2", "{\"name\":\"Ann\"}"),
          users("DELETE", "1", ""),
          WithBody(Req("POST", <<"api", "v1", "auth", "register">>, "", NoAuthz, NoQuery),
                   "{\"name\":\"Ann\",\"email\":\"a@b.com\",\"password\":\"secret1\"}") }

\* The requests a client of program p sends.
Requests(p) ==
    CASE p = "mw"      -> MwRequests
      [] p = "jwt"     -> JwtRequests
      [] p = "crud"    -> CrudRequests
      [] p = "me"      -> MeRequests
      [] p = "scoped"  -> PingRequests
      [] p = "logrus"  -> { r \in PingRequests : r.authz = NoAuthz }
      [] p = "mwgroup" -> MwGroupRequests
      [] p = "auth"    -> AuthRequests
      [] OTHER         -> BasicRequests

NoRequest ==
    [method |-> "", path |-> <<>>, token |-> "", authz |-> <<>>, query |-> NoQuery,
     body |-> ""]

\* The keys of a context on which nothing was set: "user" (gin.AuthUserKey),
\* "userID" and "logger".
NoKeys == [user |-> "", userID |-> -1, logger |-> FALSE]

\* The users table, empty: no rows, and the id that the next insert gets.
NoUsers == [next |-> 1, rows |-> <<>>]

\* A task that serves no request, with a context as Engine.allocateContext
\* makes it.
Idle ==
    [st |-> "idle", req |-> NoRequest, kind |-> "none", handlers |-> <<>>,
     index |-> -1, stack |-> <<>>, ran |-> <<>>, cut |-> 0, cutResp |-> NewResponse,
     resp |-> NewResponse, params |-> NoQuery, keys |-> NoKeys,
     logs |-> <<>>, panicked |-> FALSE, bodyErr |-> FALSE, unread |-> "",
     repoErr |-> FALSE]

(***************************************************************************)
(* main: the router is built, then the server listens                      *)
(***************************************************************************)
NoGroups == [v \in {} |-> New]

Init ==
    /\ prog \in Programs
    /\ alive = TRUE
    /\ tasks = [t \in Tasks |-> Idle]
    /\ pc = 1
    /\ listening = FALSE
    /\ groups = NoGroups
    /\ routes = <<>>
    /\ pairs = {}
    /\ db = NoUsers

\* The statement main is at.
AtCall(op) ==
    /\ alive
    /\ ~listening
    /\ pc <= Len(Main(prog))
    /\ Main(prog)[pc].op = op

\* router := gin.New() / gin.Default()
NewEngine ==
    /\ AtCall("Engine")
    /\ groups' = (Main(prog)[pc].var :> Engine(prog)) @@ groups
    /\ pc' = pc + 1
    /\ UNCHANGED <<prog, db, alive, tasks, listening, routes, pairs>>

\* auth := gin.BasicAuth(accounts): the pairs are computed here, once.
NewBasicAuth ==
    /\ AtCall("BasicAuth")
    /\ pairs' = ProcessAccounts(Accounts)
    /\ pc' = pc + 1
    /\ UNCHANGED <<prog, db, alive, tasks, listening, groups, routes>>

\* The effect of var := on.Group(prefix, hs...)
MakeGroup(call) ==
    /\ groups' = (call.var :> Group(groups[call.on], call.rel, call.hs)) @@ groups
    /\ pc' = pc + 1
    /\ UNCHANGED <<prog, db, alive, tasks, listening, routes, pairs>>

NewGroup == AtCall("Group") /\ MakeGroup(Main(prog)[pc])

\* on.Use(hs...)
NewUse ==
    /\ AtCall("Use")
    /\ groups' = [groups EXCEPT ![Main(prog)[pc].on] = Use(@, Main(prog)[pc].hs)]
    /\ pc' = pc + 1
    /\ UNCHANGED <<prog, db, alive, tasks, listening, routes, pairs>>

\* The effect of on.GET(rel, hs...): the route is added to the method's
\* tree, or the call panics and, main recovering nothing, the process ends
\* with the table as it was.
Register(call) ==
    LET r == Handle(groups[call.on], call.method, call.rel, call.hs)
    IN  /\ IF Conflicts(routes, r)
           THEN alive' = FALSE /\ UNCHANGED <<pc, routes>>
           ELSE routes' = AddRoute(routes, r) /\ pc' = pc + 1 /\ UNCHANGED alive
        /\ UNCHANGED <<prog, db, tasks, listening, groups, pairs>>

NewRoute == AtCall("Handle") /\ Register(Main(prog)[pc])

\* server.ListenAndServe() / router.Run(): main blocks in the call and the
\* server accepts requests.
Listen ==
    /\ AtCall("Listen")
    /\ listening' = TRUE
    /\ UNCHANGED <<prog, db, alive, tasks, pc, groups, routes, pairs>>

(***************************************************************************)
(* The server                                                              *)
(***************************************************************************)
RECURSIVE JoinPath(_)

JoinPath(path) == IF path = <<>> THEN "" ELSE "/" \o path[1] \o JoinPath(Tail(path))

\* The text of a path.
PathString(path) == IF path = <<>> THEN "/" ELSE JoinPath(path)

\* redirectTrailingSlash: http.Redirect to the other spelling, 301 for GET
\* (with a short HTML body) and 307 otherwise.
Redirect(c) ==
    LET isGet == c.req.method = "GET"
        loc   == PathString(ToggleSlash(c.req.path))
    IN  [c EXCEPT !.st = "done",
                  !.resp = [status |-> IF isGet THEN 301 ELSE 307,
                            written |-> TRUE,
                            hdr |-> {<<"Location", loc>>} \cup
                                    (IF isGet THEN {<<"Content-Type", "text/html; charset=utf-8">>}
                                     ELSE {}),
                            body |-> IF isGet
                                     THEN <<[kind |-> "text", obj |-> [text |-> loc]]>>
                                     ELSE <<>>]]

\* A reset that keeps the keys and the response headers of the request the
\* context served before.
ResetKeeps(c) ==
    [Idle EXCEPT !.keys = c.keys, !.resp.hdr = c.resp.hdr]

\* Context.reset, on a context taken from the pool: a new writer, no
\* handlers, index -1, no parameters, no keys.  Nothing of the request the
\* context served before is left.
Reset(c) ==
    [c EXCEPT !.st = "idle", !.req = NoRequest, !.kind = "none", !.handlers = <<>>,
              !.index = -1, !.stack = <<>>, !.ran = <<>>, !.cut = 0,
              !.cutResp = NewResponse, !.resp = NewResponse, !.params = NoQuery,
              !.keys = NoKeys, !.logs = <<>>, !.panicked = FALSE,
              !.bodyErr = FALSE, !.unread = "", !.repoErr = FALSE]

\* Engine.ServeHTTP and handleHTTPRequest up to the first handler, on the
\* context c taken from the pool: the reset, the lookup, and the top-level
\* Next (c.index++ from -1).
Serve(c, req) ==
    LET r == Resolve(routes, groups["router"], req.method, req.path)
        d == [Reset(c) EXCEPT !.st = "running", !.req = req, !.kind = r.kind,
                              !.handlers = r.handlers, !.params = r.params,
                              !.index = 0, !.unread = req.body]
    IN  IF r.kind = "redirect" THEN Redirect(d)
        ELSE IF r.kind = "noroute"
        THEN [d EXCEPT !.resp.status = StatusNotFound]
        ELSE d

\* The server is in service: main is in ListenAndServe.
Listening == alive /\ listening

\* A request arrives and is dispatched on a new task, with a context new
\* from the pool.
Accept(t) ==
    /\ Listening
    /\ tasks[t].st = "idle"
    /\ \E req \in Requests(prog) :
          tasks' = [tasks EXCEPT ![t] = Serve(tasks[t], req)]
    /\ UNCHANGED <<prog, db, alive, setup>>

\* The next handler of the chain.
Current(c) == c.handlers[c.index + 1]

InChain(c) == c.st = "running" /\ c.index < Len(c.handlers)

Enter(c) == [c EXCEPT !.ran = Append(@, Current(c))]

\* The next handler runs up to its call of Next or its return.
RunHandler(t) ==
    LET c == tasks[t]
    IN  /\ alive
        /\ InChain(c)
        /\ Current(c) \notin {"get", "update", "delete", "register", "login"}
        /\ IF Current(c) = "GetBodyDataHandler"
           THEN LET rd == ReadAll(Enter(c))
                IN  tasks' = [tasks EXCEPT ![t] = GetBodyDataHandler(rd.c, rd.val)]
           ELSE tasks' = [tasks EXCEPT ![t] = Run(Current(c), Enter(c))]
        /\ UNCHANGED <<prog, db, alive, setup>>

\* GetBodyDataHandler's read of the body fails: log.Fatal exits the process
\* and with it every request in flight.
ReadBodyFails(t) ==
    LET c == tasks[t]
    IN  /\ alive
        /\ InChain(c)
        /\ Current(c) = "GetBodyDataHandler"
        /\ tasks' = [tasks EXCEPT ![t] = GetBodyDataFailure(Enter(c))]
        /\ alive' = FALSE
        /\ UNCHANGED <<prog, db, setup>>

\* A terminal handler fails at run time (a panic) before it writes.
Panic(t) ==
    LET c == tasks[t]
    IN  /\ alive
        /\ InChain(c)
        /\ Current(c) \in TerminalHandlers
        /\ tasks' = [tasks EXCEPT ![t] = Unwound(Enter(c))]
        /\ UNCHANGED <<prog, db, alive, setup>>

RECURSIVE Resume(_)

\* The chain is exhausted: the handlers waiting in Next resume after it,
\* innermost first, and return.
Resume(c) ==
    IF c.stack = <<>> THEN c
    ELSE LET h == c.stack[Len(c.stack)]
         IN  Resume(ReturnFrom(AfterNext(h,
                 [c EXCEPT !.stack = SubSeq(c.stack, 1, Len(c.stack) - 1)])))

\* After the top-level Next: a route's response header is committed; the
\* no-route case (serveError) writes the default body unless a handler wrote.
Finalize(c) ==
    LET d == [c EXCEPT !.st = "done"]
    IN  IF c.kind = "noroute" /\ ~c.resp.written /\ c.resp.status = StatusNotFound
        THEN Write(Header(d, "Content-Type", "text/plain"),
                   [kind |-> "text", obj |-> [text |-> "404 page not found"]])
        ELSE WriteHeaderNow(d)

\* The waiting handlers return and the response is complete and sent.
Finish(t) ==
    LET c == tasks[t]
    IN  /\ alive
        /\ c.st = "running"
        /\ c.index >= Len(c.handlers)
        /\ tasks' = [tasks EXCEPT ![t] = Finalize(Resume(c))]
        /\ UNCHANGED <<prog, db, alive, setup>>

\* The request is over and its connection closes: the task ends, and the
\* next one starts with a context of its own.
Release(t) ==
    /\ alive
    /\ tasks[t].st \in {"done", "dropped"}
    /\ tasks' = [tasks EXCEPT ![t] = Idle]
    /\ UNCHANGED <<prog, db, alive, setup>>

Next ==
    \/ NewEngine
    \/ NewBasicAuth
    \/ NewGroup
    \/ NewRoute
    \/ Listen
    \/ \E t \in Tasks :
        \/ Accept(t)
        \/ RunHandler(t)
        \/ ReadBodyFails(t)
        \/ Panic(t)
        \/ Finish(t)
        \/ Release(t)

Spec == Init /\ [][Next]_vars

(***************************************************************************)
(* RouterSpec: a main that builds a router by gin.New() and then makes up  *)
(* to MaxCalls calls of Group, GET and POST, in any order, with patterns   *)
(* that overlap: the same pattern twice, a literal and a parameter at the  *)
(* same place, parameters of two names, the same pattern under two         *)
(* methods and under a group.                                              *)
(***************************************************************************)
\* The patterns given to GET: /getData, /:name, /:id, /getData/:name,
\* /:name/getData.
DriverPatterns ==
    { <<Lit("getData")>>, <<Par("name")>>, <<Par("id")>>,
      <<Lit("getData"), Par("name")>>, <<Par("name"), Lit("getData")>> }

\* The calls on the group held by variable on.
DriverHandles(on) ==
    { HandleCall(on, "GET", pat, <<"GetDatahandler">>) : pat \in DriverPatterns }
    \cup { HandleCall(on, "GET", <<Lit("getData")>>, <<"AddHeader", "GetData1handler">>),
           HandleCall(on, "POST", <<Lit("getData")>>, <<"GetData2handler">>) }

DriverInit ==
    /\ prog = "driver"
    /\ alive = TRUE
    /\ tasks = [t \in Tasks |-> Idle]
    /\ pc = 1
    /\ listening = FALSE
    /\ groups = ("router" :> New)
    /\ routes = <<>>
    /\ pairs = {}
    /\ db = NoUsers

\* adminRoutes := router.Group("/admin", middleware.Authenticate)
DriverGroup ==
    /\ alive
    /\ pc <= MaxCalls
    /\ "adminRoutes" \notin DOMAIN groups
    /\ MakeGroup(GroupCall("adminRoutes", "router", <<Lit("admin")>>, <<"Authenticate">>))

\* on.GET(...), on.POST(...) on a group that exists
DriverRoute ==
    /\ alive
    /\ pc <= MaxCalls
    /\ \E on \in DOMAIN groups : \E call \in DriverHandles(on) : Register(call)

RouterNext == DriverGroup \/ DriverRoute

RouterSpec == DriverInit /\ [][RouterNext]_vars

(***************************************************************************)
(* PoolSpec: the middleware program with gin's pool of contexts.  A task   *)
(* is a context of the pool: when its request is answered the context goes *)
(* back to the pool as the request left it, and the next request that      *)
(* takes it starts with Context.reset.                                     *)
(***************************************************************************)
PoolInit == Init /\ prog = "mw"

\* engine.pool.Get() returns a context that served a request before:
\* ServeHTTP resets it and serves the new request on it.
Reuse(t) ==
    /\ Listening
    /\ tasks[t].st = "done"
    /\ \E req \in Requests(prog) :
          tasks' = [tasks EXCEPT ![t] = Serve(tasks[t], req)]
    /\ UNCHANGED <<prog, db, alive, setup>>

PoolNext ==
    \/ NewEngine
    \/ NewRoute
    \/ Listen
    \/ \E t \in Tasks :
        \/ Accept(t)
        \/ Reuse(t)
        \/ RunHandler(t)
        \/ Panic(t)
        \/ Finish(t)
        \/ Release(t)

PoolSpec == PoolInit /\ [][PoolNext]_vars

(***************************************************************************)
(* ApiSpec: the programs of the documents of the repository.               *)
(*   "me"      the routes POST, PUT and PATCH /me                          *)
(*   "scoped"  readme.md, section 5: gin.New() with the request-scoped     *)
(*             logger, and a group behind AuthMiddleware                   *)
(***************************************************************************)
ApiInit ==
    /\ prog \in {"me", "scoped"}
    /\ alive = TRUE
    /\ tasks = [t \in Tasks |-> Idle]
    /\ pc = 1
    /\ listening = FALSE
    /\ groups = NoGroups
    /\ routes = <<>>
    /\ pairs = {}
    /\ db = NoUsers

ApiNext ==
    \/ NewEngine
    \/ NewUse
    \/ NewGroup
    \/ NewRoute
    \/ Listen
    \/ \E t \in Tasks :
        \/ Accept(t)
        \/ RunHandler(t)
        \/ Panic(t)
        \/ Finish(t)
        \/ Release(t)

ApiSpec == ApiInit /\ [][ApiNext]_vars

(***************************************************************************)
(* JwtSpec: the users API of rest_api.md behind the JWT gate, with the     *)
(* users table.  "jwt" and "crud" are the same program, with clients that  *)
(* send the requests that show the gate and the requests that show the     *)
(* service.                                                                *)
(***************************************************************************)
JwtInit ==
    /\ prog \in {"jwt", "crud"}
    /\ alive = TRUE
    /\ tasks = [t \in Tasks |-> Idle]
    /\ pc = 1
    /\ listening = FALSE
    /\ groups = NoGroups
    /\ routes = <<>>
    /\ pairs = {}
    /\ db = NoUsers

\* The next handler is one that calls the service: it runs to its return,
\* against the users table as it is now.  The table hands out ids up to
\* MaxId.
RunService(t) ==
    LET c == tasks[t]
    IN  /\ alive
        /\ InChain(c)
        /\ Current(c) \in {"get", "update", "delete", "register", "login"}
        /\ Current(c) = "register" => db.next <= MaxId
        /\ \E fail \in BOOLEAN :
              LET h   == Current(c)
                  out == CASE h = "get"      -> get(Enter(c), db, fail)
                           [] h = "update"   -> update(Enter(c), db, fail)
                           [] h = "delete"   -> delete(Enter(c), db, fail)
                           [] h = "register" -> register(Enter(c), db, fail)
                           [] h = "login"    -> login(Enter(c), db, fail)
              IN  tasks' = [tasks EXCEPT ![t] = out.c] /\ db' = out.db
        /\ UNCHANGED <<prog, alive, setup>>

JwtNext ==
    \/ NewEngine
    \/ NewUse
    \/ NewGroup
    \/ NewRoute
    \/ Listen
    \/ \E t \in 1..MaxInFlight :
        \/ Accept(t)
        \/ RunHandler(t)
        \/ RunService(t)
        \/ Panic(t)
        \/ Finish(t)
        \/ Release(t)

JwtSpec == JwtInit /\ [][JwtNext]_vars

(***************************************************************************)
(* LogrusSpec: the full app of readme.md, section 15.  A request that has  *)
(* been accepted is served to its end: its goroutine is scheduled again    *)
(* and again, so the next handler of its chain runs (or panics) and the    *)
(* handlers waiting in Next return.                                        *)
(***************************************************************************)
LogrusInit ==
    /\ prog = "logrus"
    /\ alive = TRUE
    /\ tasks = [t \in Tasks |-> Idle]
    /\ pc = 1
    /\ listening = FALSE
    /\ groups = NoGroups
    /\ routes = <<>>
    /\ pairs = {}
    /\ db = NoUsers

LogrusNext ==
    \/ NewEngine
    \/ NewUse
    \/ NewRoute
    \/ Listen
    \/ \E t \in Tasks :
        \/ Accept(t)
        \/ RunHandler(t)
        \/ Panic(t)
        \/ Finish(t)
        \/ Release(t)

LogrusSpec ==
    /\ LogrusInit
    /\ [][LogrusNext]_vars
    /\ \A t \in Tasks : WF_vars(RunHandler(t) \/ Finish(t))

(***************************************************************************)
(* Properties                                                              *)
(***************************************************************************)
IsPrefix(a, b) == Len(a) <= Len(b) /\ a = SubSeq(b, 1, Len(a))

Ended(c) == c.st \in {"done", "dropped"}

Ran(c, h) == \E i \in 1..Len(c.ran) : c.ran[i] = h

\* The terminal handler of a matched route.
Terminal(c) == c.handlers[Len(c.handlers)]

\* The body of a response that is the JSON object obj.
JsonBody(obj) == <<[kind |-> "json", obj |-> Marshal(obj)]>>

\* C1: for a request dispatched to a route, the links run in chain order
\* without a gap and none twice; when the request has ended, either no link
\* cut the chain and every link and the handler ran exactly once, or a link
\* cut it, exactly the links up to that one ran and the handler did not.
C1_ChainRunsOrCuts ==
    \A t \in Tasks :
        LET c == tasks[t]
        IN  c.kind = "route" =>
              /\ IsPrefix(c.ran, c.handlers)
              /\ c.cut # 0 => c.cut < Len(c.handlers) /\ c.ran = SubSeq(c.handlers, 1, c.cut)
              /\ Ended(c) =>
                   \/ c.cut = 0 /\ c.ran = c.handlers
                   \/ c.cut # 0 /\ ~Ran(c, Terminal(c))

\* One request ended with the whole chain of GET /getData run, another ended
\* cut by the first link.
C1_Witness ==
    \E t, u \in Tasks :
        /\ tasks[t].st = "done" /\ tasks[t].cut = 0
        /\ tasks[t].ran = <<"Authenticate", "AddHeader", "GetDatahandler">>
        /\ tasks[u].st = "done" /\ tasks[u].cut = 1
        /\ tasks[u].ran = <<"Authenticate">>

Gated(c) == prog = "mw" /\ c.kind = "route" /\ c.handlers[1] = "Authenticate"

\* The token gate with the body abortBody: the handler is reached exactly by
\* the requests whose Token header is "auth"; every other request ends with
\* that body and the handler not run.
TokenGate(abortBody) ==
    \A t \in Tasks :
        LET c == tasks[t]
        IN  Gated(c) =>
              /\ Ran(c, Terminal(c)) => c.req.token = "auth"
              /\ Ended(c) /\ c.req.token = "auth" => Ran(c, Terminal(c))
              /\ Ended(c) /\ c.req.token # "auth" =>
                   c.st = "done" /\ c.resp.body = JsonBody(abortBody)

\* C3 as stated: the abort body is {"Message":"Token Not Present!"}.
C3_Original == TokenGate([Message |-> "Token Not Present!"])

\* C3: a request to the route guarded by the token gate reaches the handler
\* if and only if its Token header is exactly "auth"; any other request is
\* aborted with the body {"Message":"Token Not Present! U+1F534"} (the
\* message ends with the red-circle emoji) and the handler never runs.
C3_TokenGate == TokenGate([Message |-> "Token Not Present! U+1F534"])

\* The gate has let a request with Token "auth" through to the handler and
\* has aborted requests without a token and with "Auth".
C3_Witness ==
    \E t, u \in Tasks :
        /\ Gated(tasks[t]) /\ tasks[t].st = "done" /\ tasks[t].req.token = "auth"
        /\ Ran(tasks[t], "GetDatahandler")
        /\ Gated(tasks[u]) /\ tasks[u].st = "done" /\ tasks[u].req.token = "Auth"
        /\ tasks[u].resp.body # <<>> /\ ~Ran(tasks[u], "GetDatahandler")

\* "Basic dXNlcjpwYXNzdw==", "Basic dXNlcjE6cGFzc3cx", "Basic dXNlcjI6cGFzc3cy":
\* the header values of user:passw, user1:passw1 and user2:passw2.
EncodedUserPassw ==
    <<66, 97, 115, 105, 99, 32, 100, 88, 78, 108, 99, 106, 112, 119, 89, 88, 78, 122,
      100, 119, 61, 61>>

EncodedUser1Passw1 ==
    <<66, 97, 115, 105, 99, 32, 100, 88, 78, 108, 99, 106, 69, 54, 99, 71, 70, 122,
      99, 51, 99, 120>>

EncodedUser2Passw2 ==
    <<66, 97, 115, 105, 99, 32, 100, 88, 78, 108, 99, 106, 73, 54, 99, 71, 70, 122,
      99, 51, 99, 121>>

\* The requests of the basic-auth program to a route under /admin.
Admin(c) == prog = "auth" /\ c.kind = "route" /\ Ran(c, "BasicAuth")

\* The basic-auth gate accepting exactly the header values in accepted: a
\* request with one of them reaches the handler, every other request is
\* aborted with 401 and the handler never runs.
BasicAuthGate(accepted) ==
    \A t \in Tasks :
        LET c == tasks[t]
        IN  Admin(c) =>
              /\ Ran(c, Terminal(c)) => c.req.authz \in accepted
              /\ Ended(c) /\ c.req.authz \in accepted => Ran(c, Terminal(c))
              /\ Ended(c) /\ c.req.authz \notin accepted =>
                   c.st = "done" /\ c.resp.status = StatusUnauthorized

\* C4 as stated: only the credential user:passw is let through.
C4_Original == BasicAuthGate({EncodedUserPassw})

\* C4: a request to a route under /admin carrying the Base64-encoded
\* credential of one of the three configured accounts (user:passw,
\* user1:passw1, user2:passw2) reaches the handler; a request with any other
\* credential or without the header is aborted with 401 and never reaches it.
C4_BasicAuthGate ==
    BasicAuthGate({EncodedUserPassw, EncodedUser1Passw1, EncodedUser2Passw2})

\* The gate has let user:passw through to the handler and has aborted a
\* request that carried user with the password of user1.
C4_Witness ==
    \E t, u \in Tasks :
        /\ Admin(tasks[t]) /\ tasks[t].st = "done"
        /\ tasks[t].req.authz = EncodedUserPassw
        /\ Ran(tasks[t], "GetUrlDataHandler") /\ tasks[t].resp.status = StatusOK
        /\ Admin(tasks[u]) /\ tasks[u].st = "done"
        /\ tasks[u].req.authz \notin {<<>>, EncodedUserPassw, EncodedUser1Passw1,
                                       EncodedUser2Passw2}
        /\ tasks[u].resp.status = StatusUnauthorized

\* The request was cut short by an authentication gate.
AuthFailed(c) ==
    c.kind = "route" /\ c.cut # 0 /\ c.handlers[c.cut] \in {"Authenticate", "BasicAuth"}

\* C5: every authentication failure, of the token gate or of the basic-auth
\* gate, produces a response with status 401.
C5_AuthFailureIs401 ==
    \A t \in Tasks :
        AuthFailed(tasks[t]) /\ tasks[t].st = "done" =>
            tasks[t].resp.status = StatusUnauthorized

\* C6: when the token gate rejects a request (Token header missing or not
\* "auth"), the response status is 500 and not 401.
C6_TokenGateIs500 ==
    \A t \in Tasks :
        LET c == tasks[t]
        IN  Gated(c) /\ c.req.token # "auth" /\ c.st = "done" =>
              /\ c.resp.status = StatusInternalServerError
              /\ c.resp.status # StatusUnauthorized
              /\ c.resp.written

\* The token gate has rejected a request without a Token header.
C6_Witness ==
    \E t \in Tasks :
        /\ Gated(tasks[t]) /\ tasks[t].st = "done"
        /\ tasks[t].req.token = "" /\ tasks[t].cut = 1

\* C7: every request GET /getData with Token "auth" that is answered gets
\* status 200, the handler's JSON body and the response header Key: Val; the
\* header is on the context from the moment AddHeader has run, so the handler
\* runs with it set.
C7_GetDataOk ==
    \A t \in Tasks :
        LET c == tasks[t]
        IN  Gated(c) /\ c.req.token = "auth" =>
              /\ Ran(c, "AddHeader") => <<"Key", "Val">> \in c.resp.hdr
              /\ c.st = "done" =>
                   /\ c.resp.status = StatusOK
                   /\ c.resp.body =
                        JsonBody([data |-> "Hi! I am GetDataHandler method() U+1F7E2",
                                  status_code |-> 200])
                   /\ <<"Key", "Val">> \in c.resp.hdr
                   /\ c.ran = <<"Authenticate", "AddHeader", "GetDatahandler">>

\* GET /getData with Token "auth" has been answered.
C7_Witness ==
    \E t \in Tasks :
        /\ Gated(tasks[t]) /\ tasks[t].st = "done" /\ tasks[t].req.token = "auth"
        /\ tasks[t].req.method = "GET" /\ tasks[t].req.path = <<"getData">>
        /\ tasks[t].resp.written

C9_ServiceSurvivesReadError ==
    \A t \in Tasks : tasks[t].bodyErr => alive

\* No route of the program matches the request's method and path.
NoRoute(c) ==
    \A r \in Routes(prog) : r.method # c.req.method \/ ~Match(r.pattern, c.req.path)

\* No pattern of the program matches the path, under any method.
NoPattern(c) == \A r \in Routes(prog) : ~Match(r.pattern, c.req.path)

\* The path, spelled with or without its trailing slash, is a route of the
\* request's method.
OtherSpelling(c) ==
    /\ c.req.path # <<>>
    /\ \E r \in Routes(prog) :
          r.method = c.req.method /\ Match(r.pattern, ToggleSlash(c.req.path))

\* C10 as stated: 404 when no pattern matches the path, 405 when a pattern
\* matches it under another method only; no middleware and no handler runs.
C10_Original ==
    \A t \in Tasks :
        LET c == tasks[t]
        IN  c.st = "done" /\ NoRoute(c) =>
              /\ c.resp.status = IF NoPattern(c) THEN StatusNotFound ELSE 405
              /\ c.ran = <<>>

\* C10: a request that matches no route of its method gets 404 with gin's
\* default body, also when its path is registered under another method
\* (no 405 is ever sent); except that a path which is a route of that method
\* once its trailing slash is removed or added is redirected there, 301 for
\* GET and 307 otherwise.  No route's handler or middleware runs: only the
\* router-wide Logger and Recovery of the gin.Default() programs do.
C10_NoRouteIs404 ==
    \A t \in Tasks :
        LET c == tasks[t]
        IN  c.st # "idle" /\ NoRoute(c) =>
              /\ c.resp.status # 405
              /\ IsPrefix(c.ran, IF prog = "mw" THEN <<>> ELSE <<"Logger", "Recovery">>)
              /\ c.st = "done" =>
                   IF OtherSpelling(c)
                   THEN /\ c.resp.status = IF c.req.method = "GET" THEN 301 ELSE 307
                        /\ c.ran = <<>>
                   ELSE /\ c.resp.status = StatusNotFound
                        /\ c.resp.body =
                             <<[kind |-> "text", obj |-> [text |-> "404 page not found"]]>>

\* A POST to a path registered for GET only and a request to a path no
\* pattern matches have both been answered.
C10_Witness ==
    \E t, u \in Tasks :
        /\ tasks[t].st = "done" /\ NoRoute(tasks[t]) /\ ~NoPattern(tasks[t])
        /\ tasks[t].req.method = "POST" /\ ~OtherSpelling(tasks[t])
        /\ tasks[u].st = "done" /\ NoPattern(tasks[u]) /\ ~OtherSpelling(tasks[u])
        /\ tasks[u].resp.status = StatusNotFound

\* The chains as main's source gives them, for a request dispatched to a
\* route: the handlers of the router itself, those of the group the path is
\* under, the links given with the route, and the route's handler.
RouterChain == IF prog \in {"auth", "basic"} THEN <<"Logger", "Recovery">> ELSE <<>>

UnderGroup(c) == c.req.path # <<>> /\ c.req.path[1] \in {"admin", "client"}

GroupChain(c) ==
    IF c.req.path # <<>> /\ c.req.path[1] = "admin"
    THEN (IF prog = "auth" THEN <<"BasicAuth">> ELSE <<"Authenticate">>)
    ELSE <<>>

\* The path below the group's prefix.
Relative(c) == IF UnderGroup(c) THEN Tail(c.req.path) ELSE c.req.path

RouteChain(c) ==
    IF Relative(c) = <<"getData">>
    THEN (IF prog = "mw" THEN <<"Authenticate", "AddHeader">> ELSE <<"Authenticate">>)
    ELSE <<>>

RouteHandler(c) ==
    LET rel == Relative(c)
    IN  CASE rel = <<>>                  ->
               (IF c.req.method = "POST" THEN "PostHandler" ELSE "RootHandler")
          [] rel = <<"getData">>         -> "GetDatahandler"
          [] rel = <<"getData1">>        -> "GetData1handler"
          [] rel = <<"getData2">>        -> "GetData2handler"
          [] rel = <<"get-body-data">>   -> "GetBodyDataHandler"
          [] rel = <<"get-QryStr">>      -> "GetQryDataHandler"
          [] OTHER                       -> "GetUrlDataHandler"

EffectiveChain(c) == RouterChain \o GroupChain(c) \o RouteChain(c) \o <<RouteHandler(c)>>

UniqueRoutes ==
    \A i, j \in 1..Len(routes) :
        routes[i].method = routes[j].method /\ routes[i].pattern = routes[j].pattern
            => i = j

NameSegment(c) == c.req.path[Len(c.req.path) - 1]

AgeSegment(c) == c.req.path[Len(c.req.path)]

\* C13: a request dispatched to /get-UrlParams/:name/:age, under any group,
\* has name and age bound to exactly the text of the path's segments at the
\* places of :name and :age, whatever characters they hold, and nothing else
\* bound; when GetUrlDataHandler has answered, the body carries the two
\* values as they were in the path.
C13_ParamsBound ==
    \A t \in Tasks :
        LET c == tasks[t]
        IN  c.kind = "route" /\ Terminal(c) = "GetUrlDataHandler" =>
              /\ c.params = [name |-> NameSegment(c), age |-> AgeSegment(c)]
              /\ NameSegment(c) # "" /\ AgeSegment(c) # ""
              /\ c.st = "done" /\ c.cut = 0 /\ ~c.panicked =>
                    /\ c.resp.status = StatusOK
                    /\ c.resp.body =
                         JsonBody([data |-> "Getting data from URL params U+1F535",
                                   name |-> NameSegment(c), age |-> AgeSegment(c),
                                   status |-> StatusOK])

\* GET /client/get-UrlParams/J. D'Arc & co/:age has been answered by the
\* handler: values with spaces, an apostrophe, an ampersand and a colon.
C13_Witness ==
    \E t \in Tasks :
        /\ tasks[t].st = "done" /\ ~tasks[t].panicked
        /\ tasks[t].req.path = <<"client", "get-UrlParams", "J. D'Arc & co", ":age">>
        /\ Ran(tasks[t], "GetUrlDataHandler")
        /\ tasks[t].params["name"] = "J. D'Arc & co" /\ tasks[t].params["age"] = ":age"

\* The paths looked up: one to three segments out of admin, getData and x.
DriverSegments == {"admin", "getData", "x"}

DriverPaths ==
    { <<a>> : a \in DriverSegments }
    \cup { <<a, b>> : a, b \in DriverSegments }
    \cup { <<a, b, c>> : a, b, c \in DriverSegments }

\* The routes given to the registration calls in the order s.
Reordered(s) == [i \in 1..Len(routes) |-> routes[s[i]]]

\* p1 has a literal where p2 has a parameter, at the first segment where
\* the two patterns differ.
LiteralWhereParam(p1, p2) ==
    \E i \in 1..Len(p1) :
        /\ i <= Len(p2)
        /\ \A j \in 1..(i - 1) : p1[j] = p2[j]
        /\ p1[i][1] = "lit" /\ p2[i][1] = "param"

Literal(pattern) == \A i \in 1..Len(pattern) : pattern[i][1] = "lit"

PathOf(pattern) == [i \in 1..Len(pattern) |-> pattern[i][2]]

\* The lookup of r's method and of the path equal to r's pattern gives r,
\* and binds nothing.
ResolvesTo(r) ==
    Resolve(routes, groups["router"], r.method, PathOf(r.pattern)) =
        [kind |-> "route", handlers |-> r.handlers, params |-> <<>>,
         fullPath |-> r.pattern]

\* C15: at every point of main's registration, and when the server starts
\* to listen, every route with a literal pattern that has been registered is
\* what the lookup of its method and of the path equal to its pattern
\* returns, with no parameter bound; and every request in service with the
\* method and path of a literal route that main registers is dispatched to
\* that route's chain with no parameter bound.
C15_LiteralExact ==
    /\ (\A t \in Tasks : tasks[t].st = "idle") =>
          \A i \in 1..Len(routes) : Literal(routes[i].pattern) => ResolvesTo(routes[i])
    /\ \A t \in Tasks :
          LET c == tasks[t]
          IN  c.st # "idle" =>
                \A r \in Routes(prog) :
                    /\ Literal(r.pattern)
                    /\ c.req.method = r.method /\ c.req.path = PathOf(r.pattern)
                    => c.kind = "route" /\ c.handlers = r.handlers
                                        /\ c.params = <<>>

\* In the program of plain routes POST / has been answered by PostHandler:
\* the pattern / is registered under GET and under POST.
C15_Witness ==
    \E t \in Tasks :
        /\ prog = "basic" /\ tasks[t].st = "done"
        /\ tasks[t].req.method = "POST" /\ tasks[t].req.path = <<>>
        /\ tasks[t].kind = "route" /\ Ran(tasks[t], "PostHandler")
        /\ tasks[t].params = <<>>

\* The context of a request that has just been dispatched, had it been made
\* for this request alone.
FreshFor(req) == Serve(Idle, req)

\* Nothing of the response to GET /getData is on a context whose own chain
\* did not put it there.
OwnResponse(c) ==
    /\ <<"Key", "Val">> \in c.resp.hdr => Ran(c, "AddHeader")
    /\ c.st = "running" /\ c.ran = <<>> => c = FreshFor(c.req)
    /\ c.resp.body # <<>> => Len(c.ran) > 0 \/ c.kind # "route"

Built ==
    /\ { routes[i] : i \in 1..Len(routes) } = Routes(prog)
    /\ Len(routes) = Cardinality(Routes(prog))
    /\ { a.user : a \in pairs } =
          (IF prog = "auth" THEN {"user", "user1", "user2"} ELSE {})
    /\ Cardinality(pairs) = Cardinality({ a.user : a \in pairs })

\* C17: whenever the server listens, and whenever a request is or has been
\* in service, the route table and the credentials are complete; from then
\* on no step changes the table, a chain, a group or the credentials, and
\* no step that changes a request's context changes any of them.
C17_BuiltBeforeServing ==
    /\ [](listening \/ (\E t \in Tasks : tasks[t].st # "idle") =>
            listening /\ Built)
    /\ [][ /\ listening => UNCHANGED <<routes, pairs, groups, listening>>
           /\ tasks' # tasks => UNCHANGED <<routes, pairs, groups>> ]_vars

\* The basic-auth program serves two requests at once, one of them past
\* BasicAuth, with its five routes and three credentials in place.
C17_Witness ==
    \E t, u \in Tasks :
        /\ t # u /\ prog = "auth" /\ listening
        /\ tasks[t].st = "running" /\ Ran(tasks[t], "BasicAuth")
        /\ tasks[u].st = "running"
        /\ Len(routes) = 5 /\ Cardinality(pairs) = 3

\* The request is at a token gate: Authenticate is the handler to run next.
AtGate(c) == InChain(c) /\ Current(c) = "Authenticate"

\* C18: on every context that reaches a token gate, the bare function
\* Authenticate and the closure returned by the factory form decide alike
\* (both abort or both call Next), leave the same status and body on the
\* response, and leave the context in the same state altogether.
C18_FactoryEquivalent ==
    \A t \in Tasks :
        AtGate(tasks[t]) =>
            LET bare    == Authenticate(Enter(tasks[t]))
                closure == AuthenticateFunc(Enter(tasks[t]))
            IN  /\ (bare.index >= AbortIndex) = (closure.index >= AbortIndex)
                /\ bare.resp.status = closure.resp.status
                /\ bare.resp.body = closure.resp.body
                /\ bare = closure

\* Two requests are at the gate, one with the token auth, which both forms
\* let pass, and one with the token wrong, which both abort with 500.
C18_Witness ==
    \E t, u \in Tasks :
        /\ AtGate(tasks[t]) /\ tasks[t].req.token = "auth"
        /\ AuthenticateFunc(Enter(tasks[t])).index < AbortIndex
        /\ AtGate(tasks[u]) /\ tasks[u].req.token = "wrong"
        /\ AuthenticateFunc(Enter(tasks[u])).index >= AbortIndex
        /\ AuthenticateFunc(Enter(tasks[u])).resp.status = StatusInternalServerError

\* The members of the JSON object that a handler of the repository writes
\* for a GET without input, in the order of the bytes of the body.
Members(h) ==
    CASE h = "GetDatahandler"  ->
           << <<"data", "Hi! I am GetDataHandler method() U+1F7E2">>,
              <<"status_code", 200>> >>
      [] h = "GetData1handler" ->
           << <<"data", "Hi! I am GetData1Handler method() U+1F535">>,
              <<"status_code", 200>> >>
      [] h = "GetData2handler" ->
           << <<"data", "Hi! I am GetData2Handler method() U+1F7E1">>,
              <<"status_code", 200>> >>
      [] h = "RootHandler"     ->
           << <<"Thought U+1F4AD",
                "Don't take life too seriously, you ain't getting out alive anyways">>,
              <<"data",
                "U+1F378 Welcome to GET root / home router Skyy (PORT: 8080 by default)!">>,
              <<"status", 200>> >>

\* The request was answered by its handler: no link cut the chain and the
\* handler did not fail.
Answered(c) ==
    /\ c.st = "done" /\ c.kind = "route" /\ c.cut = 0
    /\ ~c.panicked /\ ~c.bodyErr

\* C19: every answer of GetDatahandler, GetData1handler, GetData2handler and
\* RootHandler to a GET has the same body, byte for byte: one JSON object
\* with its members in ascending order of their keys' bytes; and any two
\* answers to the same GET request, whatever else the server has served or
\* is serving, have equal status and equal bodies.
C19_IdempotentGet ==
    \A t \in Tasks :
        LET c == tasks[t]
        IN  Answered(c) /\ c.req.method = "GET" =>
              /\ Terminal(c) \in {"GetDatahandler", "GetData1handler",
                                  "GetData2handler", "RootHandler"} =>
                    c.resp.body = <<[kind |-> "json", obj |-> Members(Terminal(c))]>>
              /\ \A u \in Tasks :
                    Answered(tasks[u]) /\ tasks[u].req = c.req =>
                        /\ tasks[u].resp.status = c.resp.status
                        /\ tasks[u].resp.body = c.resp.body

\* GET / has been answered twice by RootHandler, whose object has the keys
\* Thought, data and status.
C19_Witness ==
    \E t, u \in Tasks :
        /\ t # u /\ Answered(tasks[t]) /\ Answered(tasks[u])
        /\ tasks[t].req.method = "GET" /\ tasks[t].req.path = <<>>
        /\ tasks[u].req = tasks[t].req
        /\ Ran(tasks[t], "RootHandler") /\ Ran(tasks[u], "RootHandler")
        /\ Len(tasks[t].resp.body) = 1 /\ Len(tasks[t].resp.body[1].obj) = 3

\* GetBodyDataHandler has read the body of the request without error.
BodyRead(c) ==
    /\ c.st # "idle" /\ Ran(c, "GetBodyDataHandler")
    /\ ~c.panicked /\ ~c.bodyErr

\* C20: until a handler reads it, the whole body of the request is there to
\* be read; the read of GetBodyDataHandler returns exactly the bytes the
\* request was sent with, which the handler echoes, and from then on the body
\* is at its end: another read in the same request returns nothing.
C20_BodyReadOnce ==
    \A t \in Tasks :
        LET c == tasks[t]
        IN  /\ c.st = "running" /\ ~Ran(c, "GetBodyDataHandler") =>
                  ReadAll(c).val = c.req.body
            /\ BodyRead(c) =>
                  /\ c.resp.body =
                       JsonBody([bodyData |-> c.req.body, status |-> StatusOK])
                  /\ ReadAll(c).val = ""
                  /\ ReadAll(ReadAll(c).c).val = ""

\* GET /get-body-data sent with the body hello has been answered with
\* bodyData hello, and nothing of the body is left to read.
C20_Witness ==
    \E t \in Tasks :
        /\ BodyRead(tasks[t]) /\ tasks[t].st = "done"
        /\ tasks[t].req.body = "hello"
        /\ tasks[t].resp.body = JsonBody([bodyData |-> "hello", status |-> StatusOK])
        /\ tasks[t].unread = ""

\* The user of the account whose credential, Base64-encoded, is the header
\* value; "" for every other value.
AccountOf(authz) ==
    CASE authz = EncodedUserPassw   -> "user"
      [] authz = EncodedUser1Passw1 -> "user1"
      [] authz = EncodedUser2Passw2 -> "user2"
      [] OTHER                      -> ""

\* C21: a request that the basic-auth gate has let continue carries the
\* user name of its credential on its context from the gate's return on,
\* while the handler runs and when the response is complete; a request that
\* has not passed the gate, or that the gate aborted (no header, a user that
\* is not configured, another account's password), carries none, and an
\* aborted one is answered 401 without its handler having run.
C21_UserRecorded ==
    \A t \in Tasks :
        LET c == tasks[t]
        IN  /\ Admin(c) /\ c.cut = 0 =>
                  c.keys["user"] = AccountOf(c.req.authz) /\ c.keys["user"] # ""
            /\ ~(Admin(c) /\ c.cut = 0) => c.keys["user"] = ""
            /\ Admin(c) /\ c.cut # 0 =>
                  /\ ~Ran(c, Terminal(c))
                  /\ c.st = "done" => c.resp.status = StatusUnauthorized

\* GetBodyDataHandler has answered a request of user2 with user2 recorded on
\* its context, and a request of a user that is not configured has been
\* aborted with 401 and nothing recorded.
C21_Witness ==
    \E t, u \in Tasks :
        /\ Admin(tasks[t]) /\ tasks[t].st = "done"
        /\ Ran(tasks[t], "GetBodyDataHandler") /\ tasks[t].keys["user"] = "user2"
        /\ Admin(tasks[u]) /\ tasks[u].st = "done" /\ tasks[u].cut # 0
        /\ tasks[u].req.authz = AuthorizationHeader(UserBytes \o <<51>>, PasswBytes)
        /\ tasks[u].keys["user"] = "" /\ tasks[u].resp.status = StatusUnauthorized

\* The request is to a route that the source puts behind a gate: GET
\* /getData in the middleware program, the routes under /admin in the
\* basic-auth program.
BehindGate(c) ==
    \/ prog = "mw" /\ c.req.path = <<"getData">>
    \/ prog = "auth" /\ c.req.path # <<>> /\ c.req.path[1] = "admin"

InGates(c) == \E i \in 1..Len(c.handlers) : c.handlers[i] \in {"Authenticate", "BasicAuth"}

\* C26: in the middleware program and in the basic-auth program, a request
\* dispatched to a route has an authentication gate in its chain exactly when
\* the route is GET /getData, respectively under /admin.  Behind a gate, a
\* request without the Token header, respectively without credentials, is
\* cut short and its handler never runs; every other route's request runs no
\* gate, is never cut short and, unless its handler fails, is answered 200
\* by its handler, with or without such a header.
C26_GateScope ==
    \A t \in Tasks :
        LET c == tasks[t]
        IN  prog \in {"mw", "auth"} /\ c.kind = "route" =>
              /\ InGates(c) = BehindGate(c)
              /\ BehindGate(c) /\ c.req.token = "" /\ c.req.authz = NoAuthz =>
                    /\ ~Ran(c, Terminal(c))
                    /\ c.st = "done" => c.cut # 0 /\ c.resp.status # StatusOK
              /\ ~BehindGate(c) =>
                    /\ ~Ran(c, "Authenticate") /\ ~Ran(c, "BasicAuth")
                    /\ c.cut = 0
                    /\ c.st = "done" /\ ~c.panicked =>
                          Ran(c, Terminal(c)) /\ c.resp.status = StatusOK

\* GET /client/get-UrlParams/... without credentials has been answered 200
\* by its handler while a request to /admin without credentials has been
\* answered 401.
C26_Witness ==
    \E t, u \in Tasks :
        /\ prog = "auth"
        /\ tasks[t].st = "done" /\ tasks[t].kind = "route"
        /\ tasks[t].req.path = <<"client", "get-UrlParams", "J. D'Arc & co", ":age">>
        /\ tasks[t].req.authz = NoAuthz
        /\ Ran(tasks[t], "GetUrlDataHandler") /\ tasks[t].resp.status = StatusOK
        /\ tasks[u].st = "done" /\ tasks[u].kind = "route"
        /\ tasks[u].req.path = <<"admin", "get-body-data">>
        /\ tasks[u].req.authz = NoAuthz
        /\ tasks[u].resp.status = StatusUnauthorized

\* A request dispatched to GET /getData of the middleware program.
ToGetData(c) ==
    prog = "mw" /\ c.kind = "route" /\ c.req.method = "GET" /\ c.req.path = <<"getData">>

KeyVal(c) == <<"Key", "Val">> \in c.resp.hdr

\* C27: for GET /getData, the header Key: Val is on the response only after
\* the gate has let the request pass and AddHeader has run; when the gate
\* aborts, AddHeader does not run, neither the response as the gate wrote it
\* nor the response sent carries the header, and of the responses sent
\* exactly those to requests that passed the gate (Token "auth") carry it.
C27_HeaderAfterGate ==
    \A t \in Tasks :
        LET c == tasks[t]
        IN  ToGetData(c) =>
              /\ KeyVal(c) => c.cut = 0 /\ IsPrefix(<<"Authenticate", "AddHeader">>, c.ran)
              /\ c.cut # 0 =>
                    /\ ~Ran(c, "AddHeader")
                    /\ ~KeyVal(c) /\ <<"Key", "Val">> \notin c.cutResp.hdr
              /\ c.st = "done" =>
                    /\ KeyVal(c) = (c.cut = 0)
                    /\ (c.cut = 0) = (c.req.token = "auth")

\* The gate has aborted GET /getData with the token wrong: the response was
\* sent with status 500 and without the header; another request, with the
\* token auth, has been answered with the header.
C27_Witness ==
    \E t, u \in Tasks :
        /\ ToGetData(tasks[t]) /\ tasks[t].st = "done" /\ tasks[t].req.token = "wrong"
        /\ tasks[t].cut = 1 /\ tasks[t].resp.status = StatusInternalServerError
        /\ ~KeyVal(tasks[t])
        /\ ToGetData(tasks[u]) /\ tasks[u].st = "done" /\ tasks[u].req.token = "auth"
        /\ KeyVal(tasks[u])

\* The header value of user u presenting password p, as a client encodes it.
Presented(u, p) == AuthorizationHeader(u, p)

\* The headers of the configured users with their own passwords, and of
\* the configured users with the password of another account.
OwnPassword ==
    { [user |-> a.user, value |-> Presented(a.ubytes, a.password)] : a \in Accounts }

OthersPassword ==
    UNION { { Presented(a.ubytes, b.password) : b \in Accounts \ {a} } :
              a \in Accounts }

\* C28: the basic-auth gate lets a request pass exactly when its header is
\* that of one configured account's user with that same account's password;
\* each of the three pairs passes, with its own user recorded, and a
\* configured user with the password of another account is aborted with 401
\* and its handler does not run.
C28_PairsMatch ==
    \A t \in Tasks :
        LET c == tasks[t]
        IN  Admin(c) =>
              /\ (c.cut = 0) = (\E o \in OwnPassword : c.req.authz = o.value)
              /\ \A o \in OwnPassword :
                    c.req.authz = o.value => c.keys["user"] = o.user
              /\ c.req.authz \in OthersPassword =>
                    /\ c.cut # 0 /\ ~Ran(c, Terminal(c))
                    /\ c.st = "done" => c.resp.status = StatusUnauthorized

\* user1 with passw1 has been let through to GetQryDataHandler, and user
\* with passw1 has been answered 401.
C28_Witness ==
    \E t, u \in Tasks :
        /\ Admin(tasks[t]) /\ tasks[t].st = "done"
        /\ tasks[t].req.authz = EncodedUser1Passw1
        /\ Ran(tasks[t], "GetQryDataHandler") /\ tasks[t].resp.status = StatusOK
        /\ Admin(tasks[u]) /\ tasks[u].st = "done"
        /\ tasks[u].req.authz = Presented(UserBytes, Passw1Bytes)
        /\ tasks[u].resp.status = StatusUnauthorized /\ ~Ran(tasks[u], Terminal(tasks[u]))

\* The request went one of the ways through its chain that end with a
\* response on the context: a gate aborted it, its handler answered it, or
\* its handler took its error branch.
Responded(c) ==
    c.kind = "route" /\ ~c.panicked /\ (c.st = "done" \/ c.bodyErr)

OneJsonBody(c) == Len(c.resp.body) = 1 /\ c.resp.body[1].kind = "json"

\* C29 as stated: on each of these ways exactly one status and one JSON body
\* are written.
C29_Original ==
    \A t \in Tasks :
        Responded(tasks[t]) => tasks[t].resp.written /\ OneJsonBody(tasks[t])

\* C29: a request dispatched to a route never has more than one body on its
\* response and its status is committed once.  The token gate's abort leaves
\* exactly one JSON body with status 500; the basic-auth gate's abort leaves
\* status 401 and no body; after either, nothing more is written.  A handler
\* that answers leaves exactly one JSON body with status 200, the error branch
\* of GetBodyDataHandler exactly one JSON body with status 500 and no success
\* body, and a handler that panics leaves no body.
C29_OneResponse ==
    \A t \in Tasks :
        LET c == tasks[t]
        IN  c.kind = "route" =>
              /\ Len(c.resp.body) <= 1
              /\ c.resp.body # <<>> => c.resp.written /\ OneJsonBody(c)
              /\ c.cut # 0 /\ c.handlers[c.cut] = "Authenticate" =>
                    /\ OneJsonBody(c) /\ c.resp.status = StatusInternalServerError
                    /\ c.resp.body = JsonBody(TokenMessage)
              /\ c.cut # 0 /\ c.handlers[c.cut] = "BasicAuth" =>
                    /\ c.resp.body = <<>> /\ c.resp.written
                    /\ c.resp.status = StatusUnauthorized
              /\ c.cut # 0 /\ c.st = "done" => c.resp = c.cutResp
              /\ c.cut = 0 /\ c.st = "done" /\ ~c.panicked =>
                    OneJsonBody(c) /\ c.resp.status = StatusOK
              /\ c.bodyErr =>
                    /\ OneJsonBody(c) /\ c.resp.status = StatusInternalServerError
                    /\ "bodyData" \notin { c.resp.body[1].obj[i][1] :
                                             i \in 1..Len(c.resp.body[1].obj) }
              /\ c.panicked => c.resp.body = <<>>

\* In the basic-auth program the gate has aborted a request, which ended
\* with status 401 and no body, and GetBodyDataHandler has taken its error
\* branch for another, which has the error body alone.
C29_Witness ==
    \E t, u \in Tasks :
        /\ prog = "auth"
        /\ tasks[t].kind = "route" /\ tasks[t].st = "done" /\ tasks[t].cut # 0
        /\ tasks[t].resp.status = StatusUnauthorized /\ tasks[t].resp.body = <<>>
        /\ tasks[u].kind = "route" /\ tasks[u].bodyErr
        /\ Len(tasks[u].resp.body) = 1
        /\ tasks[u].resp.status = StatusInternalServerError

\* The members of the request's body, when it is a JSON object.
Sent(c) == Decode(c.req.body)

\* POST /me was answered by its handler, which returned.
PostedMe(c) ==
    /\ c.req.method = "POST" /\ c.req.path = <<"me">>
    /\ Ran(c, "PostMeHandler") /\ ~c.panicked

Logged(c, message) ==
    Cardinality({ i \in DOMAIN c.logs : c.logs[i].msg = message })

\* The request-scoped logger around a request: the start record is the first
\* of the log and is there as soon as any later link has run; the completion
\* record is the last, is written only when the chain is over, and carries
\* the status of the response; neither is logged twice.
ScopedLogging(c) ==
    /\ Logged(c, "request_started") <= 1 /\ Logged(c, "request_completed") <= 1
    /\ Len(c.ran) >= 1 => c.ran[1] = "LoggerMiddleware"
    /\ Len(c.ran) >= 2 =>
          Logged(c, "request_started") = 1 /\ c.logs[1].msg = "request_started"
    /\ Logged(c, "request_completed") = 1 =>
          /\ c.st = "done"
          /\ c.logs[Len(c.logs)].msg = "request_completed"
          /\ c.logs[Len(c.logs)].status = c.resp.status
          /\ c.cut = 0 /\ c.kind = "route" => Ran(c, Terminal(c))

C30_EndLogged ==
    /\ [](\A t \in Tasks :
            LET c == tasks[t]
            IN  /\ Logged(c, "request_start") <= 1 /\ Logged(c, "request_end") <= 1
                /\ Logged(c, "request_end") = 1 => Logged(c, "request_start") = 1
                /\ Ended(c) /\ Logged(c, "request_start") = 1 =>
                      /\ Logged(c, "request_end") = 1
                      /\ c.logs[Len(c.logs)].msg = "request_end"
                      /\ c.logs[Len(c.logs)].status = c.resp.status
                      /\ c.panicked => c.resp.status = StatusInternalServerError)
    /\ \A t \in Tasks :
          (tasks[t].st = "running" /\ Logged(tasks[t], "request_start") = 1)
             ~> (tasks[t].st = "done" /\ Logged(tasks[t], "request_end") = 1)

\* The handler of GET /ping has panicked and the request is over, with
\* request_start and request_end in its log, the latter with 500.
C30_Witness ==
    \E t \in Tasks :
        LET c == tasks[t]
        IN  /\ prog = "logrus" /\ c.st = "done" /\ c.panicked
            /\ c.ran = <<"LoggerMiddlewareFull", "Recovery", "PingHandlerFull">>
            /\ Len(c.logs) = 2 /\ c.logs[1].msg = "request_start"
            /\ c.logs[2].msg = "request_end"
            /\ c.logs[2].status = StatusInternalServerError

\* The request was dispatched to a route under the prefix of the group.
Under(c, group) ==
    c.kind = "route" /\ IsPrefix(<<"api", "v1", group>>, c.req.path)

\* The Authorization header is Bearer <token> (the scheme in any case),
\* the token is valid, and its subject is a user id: decimal digits, at
\* least one, that denote a 32-bit id, as every id of this API is.
Admitted(a) ==
    /\ Len(a) >= 7 /\ a[7] = 32
    /\ [i \in 1..6 |-> Lower(a[i])] = <<98, 101, 97, 114, 101, 114>>
    /\ LET claims == ParseToken(SubSeq(a, 8, Len(a)))
       IN  /\ claims.ok
           /\ claims.subject # <<>>
           /\ \A i \in DOMAIN claims.subject : claims.subject[i] \in 48..57
           /\ ParseUint(claims.subject).ok

\* The user id that an admitted header carries.
SubjectOf(a) == ParseUint(ParseToken(SubSeq(a, 8, Len(a))).subject).val

\* C23: a request to a route under /api/v1/users reaches its handler only
\* with an Authorization header of the form Bearer <token> whose token is
\* valid and has a non-empty decimal user id as its subject, and then userID
\* is set on the context before the handler runs; in every other case the
\* gate aborts with 401, userID is never set and the handler never runs.
\* The routes under /api/v1/auth have no gate and reach their handlers
\* without a token.
C23_JwtGate ==
    \A t \in Tasks :
        LET c == tasks[t]
            a == c.req.authz
        IN  /\ Under(c, "users") =>
                /\ c.handlers[4] = "AuthMiddlewareFunc" /\ Len(c.handlers) = 5
                /\ ~Ran(c, "AuthMiddlewareFunc") =>
                      c.keys.userID = -1 /\ ~Ran(c, Terminal(c))
                /\ Ran(c, Terminal(c)) => Admitted(a) /\ c.keys.userID # -1
                /\ Ran(c, "AuthMiddlewareFunc") /\ Admitted(a) =>
                      /\ c.cut = 0 /\ c.keys.userID = SubjectOf(a)
                      /\ Ended(c) => Ran(c, Terminal(c))
                /\ Ran(c, "AuthMiddlewareFunc") /\ ~Admitted(a) =>
                      /\ c.cut = 4 /\ c.cutResp.status = StatusUnauthorized
                      /\ c.resp.status = StatusUnauthorized
                      /\ c.keys.userID = -1 /\ ~Ran(c, Terminal(c))
                /\ a = Bearer(<<116, 49, 46, 107>>) /\ Ended(c) =>
                      c.keys.userID = 1 /\ Ran(c, Terminal(c))
                /\ (a = NoAuthz \/ a = Bearer(<<116, 120, 49, 46, 107>>)
                    \/ a = Bearer(<<116, 49, 46, 120>>)) /\ Ended(c) =>
                      c.resp.status = StatusUnauthorized /\ ~Ran(c, Terminal(c))
            /\ Under(c, "auth") =>
                /\ \A i \in DOMAIN c.handlers : c.handlers[i] # "AuthMiddlewareFunc"
                /\ c.cut = 0 /\ c.keys.userID = -1
                /\ Ended(c) => Ran(c, Terminal(c))

\* The registered user 1 has read their own record with their token: the
\* gate set userID to 1 and the handler answered 200.
C23_Witness ==
    \E t \in Tasks :
        LET c == tasks[t]
        IN  /\ prog = "jwt" /\ c.st = "done" /\ Under(c, "users")
            /\ c.req.authz = Bearer(<<116, 49, 46, 107>>)
            /\ c.ran = <<"Recovery", "LoggerMiddlewareEntry", "CORSMiddleware",
                         "AuthMiddlewareFunc", "get">>
            /\ c.keys.userID = 1 /\ c.resp.status = StatusOK
            /\ 1 \in DOMAIN db.rows

\* The user that update makes of the request.
Updating(c) ==
    LET b == ShouldBindJSON(c.unread, {"name", "email"}, {"name", "email"})
    IN  [id |-> ParseUint(KeyBytes(Param(c, "id"))).val, name |-> b.obj.name,
         email |-> b.obj.email, hash |-> "", ok |-> b.err = ""]

\* Handler h of task t runs in this step, to its return, with the database
\* answering.
Handles(t, h) ==
    /\ InChain(tasks[t]) /\ Current(tasks[t]) = h
    /\ tasks'[t].ran = Append(tasks[t].ran, h)
    /\ ~tasks'[t].panicked /\ ~tasks'[t].repoErr
    /\ ParseUint(KeyBytes(Param(tasks[t], "id"))).ok

\* C25: UpdateUser of a user whose id is not in the table returns
\* ErrUserNotFound and leaves the table as it is; when the update handler
\* runs for such an id (with a body that binds) the table is unchanged and
\* the answer is 404, and so is the answer of get for an id not in the table.
C25_UpdateMissing ==
    /\ [](\A id \in (1..(MaxId + 1)) \ DOMAIN db.rows :
            LET u == [id |-> id, name |-> "Bob", email |-> "b@b.com", hash |-> ""]
            IN  UpdateUser(db, u) = [err |-> "ErrUserNotFound", store |-> db])
    /\ [][\A t \in Tasks :
            LET c == tasks[t]
                d == tasks'[t]
            IN  /\ Handles(t, "update") /\ Updating(c).ok
                   /\ Updating(c).id \notin DOMAIN db.rows =>
                      /\ db' = db
                      /\ d.resp.status = StatusNotFound
                      /\ d.resp.body = JsonBody([error |-> "not found"])
                /\ Handles(t, "get")
                   /\ ParseUint(KeyBytes(Param(c, "id"))).val \notin DOMAIN db.rows =>
                      /\ db' = db
                      /\ d.resp.status = StatusNotFound
                      /\ d.resp.body = JsonBody([error |-> "not found"])]_vars

\* PUT /api/v1/users/2 has been answered 404 while user 1 is in the table
\* and user 2 is not.
C25_Witness ==
    \E t \in Tasks :
        LET c == tasks[t]
        IN  /\ prog = "crud" /\ c.st = "done" /\ Ran(c, "update")
            /\ c.req.path = <<"api", "v1", "users", "2">>
            /\ c.resp.status = StatusNotFound
            /\ DOMAIN db.rows = {1}

====
